---- MODULE Spec2Model ----
(***************************************************************************)
(* Tile-matching game (loujingfei/loujf): the slot queue, the card field,  *)
(* the score tracker, the level-layout generator and the orchestrator that *)
(* wires them, modelled from src/unnamed/part_000 (Card, CardManager,      *)
(* ScoreManager, SlotManager), src/js/level.js (LevelManager) and          *)
(* src/js/game.js (Game, LeaderboardManager).                              *)
(*                                                                         *)
(* JavaScript arrays are modelled as sequences: the array element of       *)
(* index i is the sequence element i + 1.  Indices that the program itself *)
(* passes around (the indices of an elimination event) keep the source's   *)
(* 0-based values.                                                         *)
(***************************************************************************)
EXTENDS Integers, Sequences, FiniteSets, TLC

VARIABLES
    slots,            \* SlotManager.slots
    lastOp,           \* the last operation called and its argument
    ret,              \* what the last operation returned
    events,           \* the cardsEliminated events the last operation dispatched
    cards,            \* CardManager.cards: id -> Card
    nextId,           \* CardManager.nextId
    created,          \* the ids createCard has returned, oldest first (SpecCards)
    currentScore,     \* ScoreManager.currentScore
    highScore,        \* ScoreManager.highScore
    combo,            \* ScoreManager.combo
    maxCombo,         \* ScoreManager.maxCombo
    eliminationCount, \* ScoreManager.eliminationCount
    isPaused,         \* Game.isPaused
    isGameOver,       \* Game.isGameOver
    isPlaying,        \* Game.isPlaying
    currentLevel,     \* LevelManager.currentLevel
    leaderboard,      \* LeaderboardManager.leaderboard
    nextLevelTimer,   \* the setTimeout of gameOver(true) is pending
    hostGlobals,      \* whether the page defines effectiveWidth/effectiveHeight
    search,           \* the exhaustive search for a winning click sequence (SpecSolve)
    genTypes,         \* generateLevelLayout: cardTypes after the shuffle
    genPositions,     \* generateLevelLayout: what generateCardPositions returned
    thrown            \* the last operation ended by throwing

slotVars == <<slots, events>>
callVars == <<lastOp, ret, thrown>>
cardVars == <<cards, nextId, created>>
scoreVars == <<currentScore, highScore, combo, maxCombo, eliminationCount>>
gameVars == <<isPaused, isGameOver, isPlaying, currentLevel, leaderboard, nextLevelTimer>>
genVars == <<hostGlobals, search, genTypes, genPositions>>
vars == <<slotVars, callVars, cardVars, scoreVars, gameVars, genVars>>

(***************************************************************************)
(* Helpers for JavaScript arrays.                                          *)
(***************************************************************************)
Min(S) == CHOOSE m \in S : \A n \in S : m <= n

RECURSIVE AscSeq(_)
\* the members of a finite set of integers, smallest first
AscSeq(S) == IF S = {} THEN <<>> ELSE <<Min(S)>> \o AscSeq(S \ {Min(S)})

RECURSIVE Filter(_, _)
\* Array.prototype.filter with the test "is a member of Keep"
Filter(seq, Keep) ==
    IF seq = <<>> THEN <<>>
    ELSE (IF Head(seq) \in Keep THEN <<Head(seq)>> ELSE <<>>) \o Filter(Tail(seq), Keep)

Range(seq) == {seq[i] : i \in DOMAIN seq}

\* Array.prototype.slice(0, n)
Slice0(seq, n) == SubSeq(seq, 1, IF Len(seq) < n THEN Len(seq) ELSE n)

(***************************************************************************)
(* SlotManager (src/unnamed/part_000, lines 422-641).                      *)
(***************************************************************************)
maxSlots == 7

\* null in a slot
NullSlot == [id |-> -1, type |-> -1]

\* initialize(): new Array(this.maxSlots).fill(null)
InitialSlots == [i \in 1..maxSlots |-> NullSlot]

FindEmptyIndexOrFirst(s) ==
    IF \E i \in DOMAIN s : s[i] = NullSlot
    THEN Min({i \in DOMAIN s : s[i] = NullSlot}) - 1
    ELSE 0

\* this.slots.findIndex(slot => slot === null), 0-based, -1 when there is none
FindEmptyIndex(s) ==
    IF \E i \in DOMAIN s : s[i] = NullSlot
    THEN Min({i \in DOMAIN s : s[i] = NullSlot}) - 1
    ELSE -1

\* getCardCount()
getCardCount(s) == Cardinality({i \in DOMAIN s : s[i] # NullSlot})

\* isFull()
isFull(s) == \A i \in DOMAIN s : s[i] # NullSlot

\* typeCount[type] of checkForElimination: the 0-based indices holding `type`, ascending
TypeIndices(s, type) == AscSeq({i - 1 : i \in {j \in DOMAIN s : s[j] # NullSlot /\ s[j].type = type}})

\* the keys of typeCount: integer keys of a JavaScript object are visited in
\* ascending numeric order by for-in
TypeKeys(s) == AscSeq({s[i].type : i \in {j \in DOMAIN s : s[j] # NullSlot}})

EliminationEventsFirstTypeOnly(s) ==
    LET keys == TypeKeys(s)
        Hit == {t \in Range(keys) : Len(TypeIndices(s, t)) >= 3}
        hits == Slice0(Filter(keys, Hit), 1)
    IN [k \in DOMAIN hits |-> [type |-> hits[k], indices |-> Slice0(TypeIndices(s, hits[k]), 3)]]

\* the loop over typeCount finding no type with three indices
EliminationEventsNone(s) == <<>>

\* the loop over typeCount taking slice(0, 2) of the indices of a matched type
EliminationEventsPairs(s) ==
    LET keys == TypeKeys(s)
        Hit == {t \in Range(keys) : Len(TypeIndices(s, t)) >= 3}
        hits == Filter(keys, Hit)
    IN [k \in DOMAIN hits |-> [type |-> hits[k], indices |-> Slice0(TypeIndices(s, hits[k]), 2)]]

\* the events one pass dispatches, in dispatch order
EliminationEvents(s) ==
    LET keys == TypeKeys(s)
        Hit == {t \in Range(keys) : Len(TypeIndices(s, t)) >= 3}
        hits == Filter(keys, Hit)
    IN [k \in DOMAIN hits |-> [type |-> hits[k], indices |-> Slice0(TypeIndices(s, hits[k]), 3)]]

\* the slots once the events 1..k of the pass have had their indices set to null
SlotsAfterEvents(s, evs, k) ==
    LET Gone == UNION {Range(evs[n].indices) : n \in 1..k}
    IN [i \in DOMAIN s |-> IF (i - 1) \in Gone THEN NullSlot ELSE s[i]]

CompactReversed(s) ==
    LET kept == Filter(s, Range(s) \ {NullSlot})
    IN [i \in DOMAIN s |-> IF i <= Len(kept) THEN kept[Len(kept) + 1 - i] ELSE NullSlot]

\* compactSlots()
compactSlots(s) ==
    LET kept == Filter(s, Range(s) \ {NullSlot})
    IN [i \in DOMAIN s |-> IF i <= Len(kept) THEN kept[i] ELSE NullSlot]

\* checkForElimination(), on the slot array alone: the listeners of the events
\* it dispatches do not write the slots
checkForElimination(s) ==
    LET evs == EliminationEvents(s)
        eliminated == evs # <<>>
    IN [slots |-> IF eliminated THEN compactSlots(SlotsAfterEvents(s, evs, Len(evs))) ELSE s,
        events |-> evs,
        eliminated |-> eliminated]

\* addCard(cardData) without its call of checkForElimination()
AddCardWithoutElimination(s, cardData) ==
    LET emptyIndex == FindEmptyIndex(s)
    IN IF emptyIndex = -1
       THEN [ret |-> FALSE, slots |-> s, events |-> <<>>]
       ELSE [ret |-> TRUE, slots |-> [s EXCEPT ![emptyIndex + 1] = cardData], events |-> <<>>]

\* addCard(cardData), on the slot array alone
addCard(s, cardData) ==
    LET emptyIndex == FindEmptyIndex(s)
    IN IF emptyIndex = -1
       THEN [ret |-> FALSE, slots |-> s, events |-> <<>>]
       ELSE LET r == checkForElimination([s EXCEPT ![emptyIndex + 1] = cardData])
            IN [ret |-> TRUE, slots |-> r.slots, events |-> r.events]

\* canContinue() answering for a full queue without counting its types
CanContinueOnlyWhenNotFull(s) == ~isFull(s)

\* canContinue()
canContinue(s) ==
    IF isFull(s)
    THEN \E t \in Range(TypeKeys(s)) : Len(TypeIndices(s, t)) >= 3
    ELSE TRUE

\* clearAll(): this.slots.fill(null)
clearAll(s) == [i \in DOMAIN s |-> NullSlot]

(***************************************************************************)
(* Math.random().  A generation draws its numbers from one stream; the     *)
(* stream of seed s and step d returns ((s + n * d) mod RandomDenominator) *)
(* / RandomDenominator at its n-th call (n = 0, 1, ...).  Lengths are kept *)
(* as integers by storing every coordinate in 1/Unit of a pixel.           *)
(***************************************************************************)
RandomDenominator == 4
MaxSeed == 3
MaxStep == 2

Unit == 2 * RandomDenominator
Streams == [seed : 0..MaxSeed, step : 0..MaxStep]

\* the numerator of the n-th number of the stream
Random(rng, n) == (rng.seed + n * rng.step) % RandomDenominator

(***************************************************************************)
(* Card and CardManager (src/unnamed/part_000, lines 4-261).               *)
(***************************************************************************)
\* new Map()
NoCards == [i \in {} |-> NullSlot]

\* new Card(id, type, x, y, layer); the id is the key under which it is stored
Card(type, x, y, layer) ==
    [type |-> type, x |-> x, y |-> y, layer |-> layer, isDisabled |-> FALSE, inSlot |-> FALSE]

\* createCard(type, x, y, layer) on the manager cm = [cards, nextId]
createCard(cm, type, x, y, layer) ==
    [cards |-> [i \in DOMAIN cm.cards \cup {cm.nextId} |->
                    IF i = cm.nextId THEN Card(type, x, y, layer) ELSE cm.cards[i]],
     nextId |-> cm.nextId + 1,
     id |-> cm.nextId]

\* removeCard(id): a no-op when the id is absent
removeCard(cs, id) == [i \in DOMAIN cs \ {id} |-> cs[i]]

\* clearAll()
clearAllCards(cm) == [cards |-> NoCards, nextId |-> 0]

cardSize == 70
offset == 5

\* checkOverlap with `<` for the first `<=`
CheckOverlapLeftEdgeStrict(card1, card2) ==
    ~ \/ card1.x + (cardSize - offset) * Unit < card2.x
      \/ card1.x + offset * Unit >= card2.x + cardSize * Unit
      \/ card1.y + (cardSize - offset) * Unit <= card2.y
      \/ card1.y + offset * Unit >= card2.y + cardSize * Unit

\* checkOverlap(card1, card2), on coordinates stored in 1/Unit pixel
checkOverlap(card1, card2) ==
    ~ \/ card1.x + (cardSize - offset) * Unit <= card2.x
      \/ card1.x + offset * Unit >= card2.x + cardSize * Unit
      \/ card1.y + (cardSize - offset) * Unit <= card2.y
      \/ card1.y + offset * Unit >= card2.y + cardSize * Unit

\* isCovered of updateCardStates for the card of id i
IsCovered(cs, i) ==
    \E o \in DOMAIN cs :
        /\ ~cs[o].inSlot
        /\ ~(cs[o].layer <= cs[i].layer)
        /\ checkOverlap(cs[i], cs[o])

UpdateCardStatesSkipped(cs) == cs

\* updateCardStates() without the filter on card.inSlot of its outer loop
UpdateCardStatesSlottedToo(cs) ==
    [i \in DOMAIN cs |-> [cs[i] EXCEPT !.isDisabled = IsCovered(cs, i)]]

\* updateCardStates() skipping only the cards of a lower layer
\* (otherCard.layer < card.layer), so that a layer covers itself
UpdateCardStatesSameLayerCovers(cs) ==
    [i \in DOMAIN cs |->
        IF cs[i].inSlot THEN cs[i]
        ELSE [cs[i] EXCEPT !.isDisabled =
                 \E o \in DOMAIN cs :
                    ~cs[o].inSlot /\ ~(cs[o].layer < cs[i].layer) /\ checkOverlap(cs[i], cs[o])]]

\* updateCardStates() with the test on otherCard.inSlot negated: the cards
\* in the queue cover, the cards of the field do not
UpdateCardStatesSlottedCover(cs) ==
    [i \in DOMAIN cs |->
        IF cs[i].inSlot THEN cs[i]
        ELSE [cs[i] EXCEPT !.isDisabled =
                 \E o \in DOMAIN cs :
                    cs[o].inSlot /\ ~(cs[o].layer <= cs[i].layer) /\ checkOverlap(cs[i], cs[o])]]

\* updateCardStates(): every card that is not in a slot is disabled or enabled
updateCardStates(cs) ==
    [i \in DOMAIN cs |->
        IF cs[i].inSlot THEN cs[i] ELSE [cs[i] EXCEPT !.isDisabled = IsCovered(cs, i)]]

\* getClickabledCards(), as ids
getClickabledCards(cs) == {i \in DOMAIN cs : ~cs[i].inSlot /\ ~cs[i].isDisabled}

(***************************************************************************)
(* ScoreManager (src/unnamed/part_000, lines 265-418), on the record       *)
(* sc = [currentScore, highScore, combo, maxCombo, eliminationCount].      *)
(***************************************************************************)
\* addEliminationScore(cardsEliminated): what the call returns (totalScore)
addEliminationScoreReturn(sc, cardsEliminated) == cardsEliminated * 10 + (sc.combo + 1) * 20

AddEliminationScoreStaleCombo(sc, cardsEliminated) ==
    LET total == sc.currentScore + cardsEliminated * 10 + sc.combo * 20
    IN [currentScore |-> total,
        highScore |-> IF total > sc.highScore THEN total ELSE sc.highScore,
        combo |-> sc.combo + 1,
        maxCombo |-> IF sc.combo + 1 > sc.maxCombo THEN sc.combo + 1 ELSE sc.maxCombo,
        eliminationCount |-> sc.eliminationCount + 1]

\* addEliminationScore(cardsEliminated): the manager after the call
addEliminationScore(sc, cardsEliminated) ==
    LET c == sc.combo + 1
        totalScore == cardsEliminated * 10 + c * 20
        total == sc.currentScore + totalScore
    IN [currentScore |-> total,
        highScore |-> IF total > sc.highScore THEN total ELSE sc.highScore,
        combo |-> c,
        maxCombo |-> IF c > sc.maxCombo THEN c ELSE sc.maxCombo,
        eliminationCount |-> sc.eliminationCount + 1]

\* resetCombo()
resetCombo(sc) == [sc EXCEPT !.combo = 0]

\* getLevelCompletionBonus(level): what the call returns (bonus)
getLevelCompletionBonusReturn(sc, level) == level * 100 + sc.eliminationCount * 5

GetLevelCompletionBonusCountsCombo(sc, level) ==
    LET total == sc.currentScore + level * 100 + sc.combo * 5
    IN [sc EXCEPT !.currentScore = total,
                  !.highScore = IF total > sc.highScore THEN total ELSE sc.highScore]

\* getLevelCompletionBonus(level): the manager after the call
getLevelCompletionBonus(sc, level) ==
    LET bonus == level * 100 + sc.eliminationCount * 5
        total == sc.currentScore + bonus
    IN [sc EXCEPT !.currentScore = total,
                  !.highScore = IF total > sc.highScore THEN total ELSE sc.highScore]

ResetScoreAndBest(sc) ==
    [sc EXCEPT !.currentScore = 0, !.highScore = 0, !.combo = 0, !.maxCombo = 0, !.eliminationCount = 0]

\* reset()
resetScore(sc) == [sc EXCEPT !.currentScore = 0, !.combo = 0, !.maxCombo = 0, !.eliminationCount = 0]

(***************************************************************************)
(* LevelManager (src/js/level.js).                                         *)
(***************************************************************************)
maxLevel == 10

MinOf(a, b) == IF a < b THEN a ELSE b
MaxOf(a, b) == IF a > b THEN a ELSE b

\* Math.ceil(a / b) for a >= 0 and b > 0
CeilDiv(a, b) == (a + b - 1) \div b

\* generateLevels(): the entry pushed for `level`
LevelConfig(level) ==
    [level |-> level,
     cardTypes |-> MinOf(7, 3 + level \div 2),
     cardsPerType |-> 3 + level \div 3,
     layers |-> MinOf(5, 1 + level \div 2),
     offsetX |-> 20,
     offsetY |-> 20,
     cardGap |-> 10,
     maxCards |-> MinOf(50, 15 + level * 5)]

\* getCurrentLevelConfig(), on a table of configurations
getCurrentLevelConfig(level) ==
    IF level > maxLevel THEN LevelConfig(maxLevel) ELSE LevelConfig(level)

\* null (or undefined) as a level configuration
NoConfig == [level |-> -1]

\* getLevelConfig(level)
getLevelConfig(level) ==
    IF level < 1 \/ level > maxLevel THEN NoConfig ELSE LevelConfig(level)

\* nextLevel() without the test against maxLevel
NextLevelUnbounded(level) == level + 1

\* nextLevel(): the level after the call
nextLevel(level) == IF level < maxLevel THEN level + 1 ELSE level

\* nextLevel(): what the call returns
nextLevelReturn(level) == level < maxLevel

\* goToLevel(level): currentLevel after the call, and what the call returns
goToLevel(current, level) == IF level >= 1 /\ level <= maxLevel THEN level ELSE current

goToLevelReturn(level) == level >= 1 /\ level <= maxLevel

\* resetToFirstLevel()
resetToFirstLevel == 1

\* this.levels[currentLevel - 1] of getCurrentLevelConfig(): undefined when
\* the index is not one of the table
CurrentLevelConfigRead(level) ==
    IF level > maxLevel THEN LevelConfig(maxLevel)
    ELSE IF level < 1 THEN NoConfig ELSE LevelConfig(level)

\* the two nested loops that fill cardTypes: for each type in ascending order,
\* cardsPerType * 3 entries of it
BuildTypes(config) ==
    [k \in 1..(config.cardTypes * config.cardsPerType * 3) |->
        (k - 1) \div (config.cardsPerType * 3)]

\* array.pop(), n times
PopN(array, n) == SubSeq(array, 1, MaxOf(0, Len(array) - n))

TrimToMaxExactly(cardTypes, maxCards) ==
    IF Len(cardTypes) > maxCards THEN PopN(cardTypes, Len(cardTypes) - maxCards) ELSE cardTypes

\* if (totalCards > config.maxCards) { ... pop whole groups ... }
TrimToMax(cardTypes, maxCards) ==
    IF Len(cardTypes) > maxCards
    THEN LET removeCount == Len(cardTypes) - maxCards
             removeGroups == CeilDiv(removeCount, 3)
         IN PopN(cardTypes, 3 * removeGroups)
    ELSE cardTypes

RECURSIVE ShuffleFrom(_, _, _, _)
\* the loop of shuffleArray from index i (0-based) down, n draws already made
ShuffleFrom(array, i, rng, n) ==
    IF i <= 0 THEN array
    ELSE LET j == (Random(rng, n) * (i + 1)) \div RandomDenominator
             swapped == [array EXCEPT ![i + 1] = array[j + 1], ![j + 1] = array[i + 1]]
         IN IF Len(swapped) = Len(array) THEN ShuffleFrom(swapped, i - 1, rng, n + 1) ELSE array

\* shuffleArray(array)
shuffleArray(array, rng) == ShuffleFrom(array, Len(array) - 1, rng, 0)

\* the number of Math.random() calls shuffleArray makes
ShuffleDraws(array) == MaxOf(0, Len(array) - 1)

\* the position pushed for a card of `layer` with the draws kc (col) and kr (row)
LayerPosition(layer, kc, kr, cols, rows, gap, offsetX, offsetY, effectiveWidth, effectiveHeight) ==
    LET layerOffset == layer * 2
        layerCols == MaxOf(3, cols - layerOffset)
        layerRows == MaxOf(3, rows - layerOffset)
    IN [x |-> Unit * offsetX + RandomDenominator * (effectiveWidth - layerCols * (cardSize + gap))
                + 2 * kc * (layerCols - 1) * (cardSize + gap),
        y |-> Unit * offsetY + RandomDenominator * (effectiveHeight - layerRows * (cardSize + gap))
                + 2 * kr * (layerRows - 1) * (cardSize + gap),
        layer |-> layer]

\* the positions the loops of generateCardPositions push: layer after layer,
\* cardsInLayer = ceil(count / layers) positions per layer, each from two
\* draws (col, then row), until `count` positions exist; p = the call's
\* parameters, p.n = the draws made before the call
PositionsLoop(p) ==
    LET cardsInLayer == CeilDiv(p.count, p.layers)
    IN [k \in 1..(IF p.layers > 0 THEN p.count ELSE 0) |->
           LayerPosition((k - 1) \div cardsInLayer,
                         Random(p.rng, p.n + 2 * (k - 1)), Random(p.rng, p.n + 2 * (k - 1) + 1),
                         p.cols, p.rows, p.gap, p.offsetX, p.offsetY,
                         p.effectiveWidth, p.effectiveHeight)]

\* generateCardPositions(count, layers, cols, rows, ...).  effectiveWidth and
\* effectiveHeight are free identifiers of this method (lines 242-243): they
\* are consts of generateLevelLayout and not among the parameters.  Reading
\* them throws ReferenceError unless the page defines globals of these names,
\* which no source file does; `globals` says whether the page does and what
\* they hold.
generateCardPositions(p, globals) ==
    IF p.layers > 0 /\ CeilDiv(p.count, p.layers) > 0 /\ ~globals.defined
    THEN [thrown |-> TRUE, positions |-> <<>>]
    ELSE [thrown |-> FALSE,
          positions |-> PositionsLoop([p EXCEPT !.effectiveWidth = globals.effectiveWidth,
                                                !.effectiveHeight = globals.effectiveHeight])]

\* cardTypes.forEach((type, index) => { if (index < positions.length) createCard(...) }):
\* the entry of index `index` gets the id nextId + index
CreateCards(cm, cardTypes, positions) ==
    LET made == MinOf(Len(cardTypes), Len(positions))
    IN [cards |-> [i \in DOMAIN cm.cards \cup (cm.nextId..(cm.nextId + made - 1)) |->
                      IF i >= cm.nextId /\ i < cm.nextId + made
                      THEN LET pos == positions[i - cm.nextId + 1]
                           IN Card(cardTypes[i - cm.nextId + 1], pos.x, pos.y, pos.layer)
                      ELSE cm.cards[i]],
        nextId |-> cm.nextId + made]

\* generateLevelLayout(config, cardManager, cardArea): area = the offsetWidth
\* and offsetHeight of cardArea, rng = the stream Math.random() draws from,
\* defined = whether the page defines effectiveWidth and effectiveHeight (then
\* holding what the consts of this method hold)
generateLevelLayout(config, cm, area, rng, defined) ==
    LET cleared == clearAllCards(cm)
        built == TrimToMax(BuildTypes(config), config.maxCards)
        cardTypes == shuffleArray(built, rng)
        areaWidth == IF area.w # 0 THEN area.w ELSE 500
        areaHeight == IF area.h # 0 THEN area.h ELSE 400
        effectiveWidth == IF areaWidth > 0 THEN areaWidth ELSE 500
        effectiveHeight == IF areaHeight > 0 THEN areaHeight ELSE 400
        cols == (effectiveWidth - config.offsetX * 2) \div (cardSize + config.cardGap)
        rows == (effectiveHeight - config.offsetY * 2) \div (cardSize + config.cardGap)
        got == generateCardPositions(
                   [count |-> Len(cardTypes), layers |-> config.layers, cols |-> cols, rows |-> rows,
                    gap |-> config.cardGap, offsetX |-> config.offsetX, offsetY |-> config.offsetY,
                    effectiveWidth |-> 0, effectiveHeight |-> 0,
                    rng |-> rng, n |-> ShuffleDraws(built)],
                   [defined |-> defined, effectiveWidth |-> effectiveWidth,
                    effectiveHeight |-> effectiveHeight])
        made == CreateCards(cleared, cardTypes, got.positions)
    IN IF got.thrown
       THEN [thrown |-> TRUE, cards |-> cleared.cards, nextId |-> cleared.nextId,
             cardTypes |-> cardTypes, positions |-> <<>>]
       ELSE [thrown |-> FALSE, cards |-> updateCardStates(made.cards), nextId |-> made.nextId,
             cardTypes |-> cardTypes, positions |-> got.positions]

(***************************************************************************)
(* LeaderboardManager (src/js/game.js, lines 468-667).  An entry keeps     *)
(* rank, score, level and combo; date and playerName are display text.     *)
(***************************************************************************)
maxEntries == 10

\* this.leaderboard.sort((a, b) => b.score - a.score): the sort is stable
SortByScore(lb) ==
    LET Place(i) == 1 + Cardinality({j \in DOMAIN lb :
                        lb[j].score > lb[i].score \/ (lb[j].score = lb[i].score /\ j < i)})
    IN [k \in DOMAIN lb |-> lb[CHOOSE i \in DOMAIN lb : Place(i) = k]]

\* canEnterLeaderboard(score)
canEnterLeaderboard(lb, score) ==
    IF Len(lb) < maxEntries THEN TRUE ELSE score > lb[Len(lb)].score

\* addScore(scoreData) without the sort
AddScoreUnsorted(lb, scoreData) ==
    LET entry == [rank |-> 0, score |-> scoreData.score,
                  level |-> IF scoreData.level = 0 THEN 1 ELSE scoreData.level,
                  combo |-> scoreData.combo]
        kept == Slice0(Append(lb, entry), maxEntries)
    IN [k \in DOMAIN kept |-> [kept[k] EXCEPT !.rank = k]]

\* addScore(scoreData): the leaderboard after the call
addScore(lb, scoreData) ==
    LET entry == [rank |-> 0, score |-> scoreData.score,
                  level |-> IF scoreData.level = 0 THEN 1 ELSE scoreData.level,
                  combo |-> scoreData.combo]
        kept == Slice0(SortByScore(Append(lb, entry)), maxEntries)
    IN [k \in DOMAIN kept |-> [kept[k] EXCEPT !.rank = k]]

\* addScore(scoreData): what the call returns; the callback of some()
\* compares each entry of the list with itself
addScoreReturn(lb, scoreData) ==
    LET after == addScore(lb, scoreData)
    IN \E k \in DOMAIN after :
          LET entry == after[k]
          IN entry.score = entry.score /\ entry.level = entry.level /\ entry.combo = entry.combo

\* clearLeaderboard()
clearLeaderboard(lb) == <<>>

(***************************************************************************)
(* Game (src/js/game.js, lines 4-463), on the record g of everything the   *)
(* game owns: cards, nextId, slots, sc (the ScoreManager), the three       *)
(* flags, currentLevel, leaderboard, nextLevelTimer, and what the last     *)
(* handler left behind (events, thrown, genTypes, genPositions).           *)
(***************************************************************************)
PlayCardsPerType == 1
PlayMaxCards == 6
MaxPlayLevel == 2
MaxCarriedScore == 50

\* the configuration of a level, its field capped at `cap` cards
PlayLevelConfig(level, cap) ==
    LET config == getCurrentLevelConfig(level)
    IN [config EXCEPT !.cardsPerType = MinOf(@, PlayCardsPerType),
                      !.maxCards = MinOf(@, cap)]

\* generateLevel()
generateLevel(g, area, rng, defined, cap) ==
    LET r == generateLevelLayout(PlayLevelConfig(g.currentLevel, cap),
                                 [cards |-> g.cards, nextId |-> g.nextId], area, rng, defined)
    IN [g EXCEPT !.cards = r.cards, !.nextId = r.nextId, !.thrown = r.thrown,
                 !.genTypes = r.cardTypes, !.genPositions = r.positions]

\* startNewGame()
startNewGame(g, area, rng, defined, cap) ==
    LET cm == clearAllCards([cards |-> g.cards, nextId |-> g.nextId])
        a == [g EXCEPT !.isGameOver = FALSE, !.isPaused = FALSE, !.isPlaying = TRUE,
                       !.cards = cm.cards, !.nextId = cm.nextId,
                       !.slots = clearAll(@), !.sc = resetScore(@),
                       !.currentLevel = 1, !.events = <<>>]
        b == generateLevel(a, area, rng, defined, cap)
    IN IF b.thrown THEN b ELSE [b EXCEPT !.isPlaying = TRUE]

\* startNextLevel()
startNextLevel(g, area, rng, defined, cap) ==
    LET cm == clearAllCards([cards |-> g.cards, nextId |-> g.nextId])
        a == [g EXCEPT !.currentLevel = nextLevel(@),
                       !.cards = cm.cards, !.nextId = cm.nextId,
                       !.slots = clearAll(@), !.sc = resetCombo(@), !.events = <<>>]
        b == generateLevel(a, area, rng, defined, cap)
    IN IF b.thrown THEN b ELSE [b EXCEPT !.isPlaying = TRUE]

\* restartCurrentLevel()
restartCurrentLevel(g, area, rng, defined, cap) ==
    LET cm == clearAllCards([cards |-> g.cards, nextId |-> g.nextId])
        a == [g EXCEPT !.isGameOver = FALSE, !.isPaused = FALSE, !.isPlaying = TRUE,
                       !.cards = cm.cards, !.nextId = cm.nextId,
                       !.slots = clearAll(@), !.sc = resetScore(@), !.events = <<>>]
        b == generateLevel(a, area, rng, defined, cap)
    IN IF b.thrown THEN b ELSE [b EXCEPT !.isPlaying = TRUE]

\* gameOver(isWin) without the resetCombo() of the loss branch
GameOverKeepsCombo(g, isWin) ==
    LET a == [g EXCEPT !.isGameOver = TRUE, !.isPlaying = FALSE]
    IN IF isWin
       THEN [a EXCEPT !.sc = getLevelCompletionBonus(@, a.currentLevel), !.nextLevelTimer = TRUE]
       ELSE IF canEnterLeaderboard(a.leaderboard, a.sc.currentScore)
            THEN [a EXCEPT !.leaderboard = addScore(@, [score |-> a.sc.currentScore,
                                                          level |-> a.currentLevel,
                                                          combo |-> a.sc.maxCombo])]
            ELSE a

\* gameOver(isWin)
gameOver(g, isWin) ==
    LET a == [g EXCEPT !.isGameOver = TRUE, !.isPlaying = FALSE]
    IN IF isWin
       THEN [a EXCEPT !.sc = getLevelCompletionBonus(@, a.currentLevel), !.nextLevelTimer = TRUE]
       ELSE LET b == [a EXCEPT !.sc = resetCombo(@)]
            IN IF canEnterLeaderboard(b.leaderboard, b.sc.currentScore)
               THEN [b EXCEPT !.leaderboard = addScore(@, [score |-> b.sc.currentScore,
                                                             level |-> b.currentLevel,
                                                             combo |-> b.sc.maxCombo])]
               ELSE b

\* checkWinCondition()
checkWinCondition(g) ==
    LET cardsInPlay == {i \in DOMAIN g.cards : ~g.cards[i].inSlot}
    IN IF cardsInPlay = {} /\ getCardCount(g.slots) = 0 THEN gameOver(g, TRUE) ELSE g

\* checkGameState() that never finds the queue stuck
CheckGameStateSkipped(g) == g

\* checkGameState()
checkGameState(g) == IF ~canContinue(g.slots) THEN gameOver(g, FALSE) ELSE g

RECURSIVE RemoveSlotCards(_, _, _)
\* indices.forEach(slotIndex => { if (slots[slotIndex]) removeCard(slots[slotIndex].id) })
RemoveSlotCards(cs, s, indices) ==
    IF indices = <<>> THEN cs
    ELSE LET slotData == s[Head(indices) + 1]
         IN RemoveSlotCards(IF slotData # NullSlot THEN removeCard(cs, slotData.id) ELSE cs,
                            s, Tail(indices))

\* handleCardsEliminated(type, indices); g.slots is the array at dispatch time
handleCardsEliminated(g, type, indices) ==
    LET a == [g EXCEPT !.sc = addEliminationScore(@, 3)]
        b == [a EXCEPT !.cards = updateCardStates(RemoveSlotCards(@, a.slots, indices))]
    IN checkWinCondition(b)

RECURSIVE DispatchEvents(_, _, _, _)
\* the loop of checkForElimination over the types, from event k on: each
\* event is handled by the cardsEliminated listener before its indices are
\* set to null
DispatchEvents(g, placed, evs, k) ==
    IF k > Len(evs) THEN g
    ELSE LET at == [g EXCEPT !.slots = SlotsAfterEvents(placed, evs, k - 1)]
             handled == handleCardsEliminated(at, evs[k].type, evs[k].indices)
         IN DispatchEvents(handled, placed, evs, k + 1)

\* this.slotManager.addCard(cardData) with the game listening
GameAddCard(g, cardData) ==
    LET emptyIndex == FindEmptyIndex(g.slots)
        placed == [g.slots EXCEPT ![emptyIndex + 1] = cardData]
        evs == EliminationEvents(placed)
        handled == DispatchEvents(g, placed, evs, 1)
    IN IF emptyIndex = -1
       THEN [success |-> FALSE, g |-> g]
       ELSE [success |-> TRUE,
             g |-> [handled EXCEPT !.slots = addCard(g.slots, cardData).slots, !.events = evs]]

\* handleCardClick(card), card = the Card object stored under id
handleCardClick(g, id) ==
    LET r == GameAddCard(g, [id |-> id, type |-> g.cards[id].type])
        moved == IF id \in DOMAIN r.g.cards
                 THEN [r.g EXCEPT !.cards[id].inSlot = TRUE]
                 ELSE r.g
        updated == [moved EXCEPT !.cards = updateCardStates(@)]
    IN IF r.success THEN [handled |-> TRUE, g |-> checkGameState(updated)]
       ELSE [handled |-> FALSE, g |-> r.g]

\* the cardClicked listener
cardClicked(g, cardId) ==
    IF ~g.isPlaying \/ g.isPaused THEN [handled |-> FALSE, g |-> g]
    ELSE IF cardId \in DOMAIN g.cards /\ ~g.cards[cardId].isDisabled
    THEN handleCardClick(g, cardId)
    ELSE [handled |-> FALSE, g |-> g]

\* pauseGame()
pauseGame(g) ==
    IF ~g.isPlaying \/ g.isGameOver THEN g ELSE [g EXCEPT !.isPaused = ~@]

(***************************************************************************)
(* Values the variables hold while a specification does not use them.      *)
(***************************************************************************)
Call(name, id, type) == [name |-> name, id |-> id, type |-> type]

SlotsIdle == slots = InitialSlots /\ events = <<>>
CardsIdle == cards = NoCards /\ nextId = 0 /\ created = <<>>
ScoreIdle == currentScore = 0 /\ highScore = 0 /\ combo = 0 /\ maxCombo = 0 /\ eliminationCount = 0
GameIdle ==
    /\ isPaused = FALSE /\ isGameOver = FALSE /\ isPlaying = FALSE
    /\ currentLevel = 1 /\ leaderboard = <<>> /\ nextLevelTimer = FALSE
NoSearch == [verdict |-> "none", cover |-> <<>>, stack |-> <<>>, failed |-> {}]

GenIdle == hostGlobals = FALSE /\ search = NoSearch /\ genTypes = <<>> /\ genPositions = <<>>
CallIdle == lastOp = Call("new", -1, -1) /\ ret = FALSE /\ thrown = FALSE

(***************************************************************************)
(* SpecSlot: one initialized SlotManager driven through addCard and        *)
(* clearAll with arbitrary card data.                                      *)
(***************************************************************************)
MaxSlotType == 3
MaxSlotCardId == 1

\* the card data handed to addCard: every type, and for type 0 several card ids,
\* so that two entries of one type can be told apart
SlotCardData == {cd \in [id : 0..MaxSlotCardId, type : 0..MaxSlotType] : cd.id = 0 \/ cd.type = 0}

InitSlot == SlotsIdle /\ CardsIdle /\ ScoreIdle /\ GameIdle /\ GenIdle /\ CallIdle

AddCard(cardData) ==
    LET r == addCard(slots, cardData)
    IN /\ slots' = r.slots
       /\ events' = r.events
       /\ lastOp' = Call("addCard", cardData.id, cardData.type)
       /\ ret' = r.ret
       /\ thrown' = FALSE
       /\ UNCHANGED <<cardVars, scoreVars, gameVars, genVars>>

ClearAll ==
    /\ slots' = clearAll(slots)
    /\ events' = <<>>
    /\ lastOp' = Call("clearAll", -1, -1)
    /\ ret' = FALSE
    /\ thrown' = FALSE
    /\ UNCHANGED <<cardVars, scoreVars, gameVars, genVars>>

NextSlot == (\E cardData \in SlotCardData : AddCard(cardData)) \/ ClearAll

SpecSlot == InitSlot /\ [][NextSlot]_vars

(***************************************************************************)
(* SpecElim: checkForElimination called on an arbitrary slot array (any    *)
(* mix of null and typed entries, gaps included); the entry placed at      *)
(* index i carries id i.                                                   *)
(***************************************************************************)
MaxElimType == 2

ElimConfigs == [1..maxSlots -> -1..MaxElimType]

ConfigSlots(cfg) ==
    [i \in 1..maxSlots |-> IF cfg[i] = -1 THEN NullSlot ELSE [id |-> i - 1, type |-> cfg[i]]]

InitElim ==
    /\ \E cfg \in ElimConfigs : slots = ConfigSlots(cfg)
    /\ events = <<>>
    /\ CardsIdle /\ ScoreIdle /\ GameIdle /\ GenIdle /\ CallIdle

CheckForElimination ==
    LET r == checkForElimination(slots)
    IN /\ lastOp.name = "new"
       /\ slots' = r.slots
       /\ events' = r.events
       /\ lastOp' = Call("checkForElimination", -1, -1)
       /\ ret' = r.eliminated
       /\ thrown' = FALSE
       /\ UNCHANGED <<cardVars, scoreVars, gameVars, genVars>>

NextElim == CheckForElimination

SpecElim == InitElim /\ [][NextElim]_vars

(***************************************************************************)
(* SpecContinue: canContinue() called on an arbitrary slot array of up to  *)
(* four card types, enough for a full queue holding no three of a type.    *)
(***************************************************************************)
MaxContinueType == 3

ContinueConfigs == [1..maxSlots -> -1..MaxContinueType]

InitContinue ==
    /\ \E cfg \in ContinueConfigs : slots = ConfigSlots(cfg)
    /\ events = <<>>
    /\ CardsIdle /\ ScoreIdle /\ GameIdle /\ GenIdle /\ CallIdle

CanContinue ==
    /\ lastOp' = Call("canContinue", -1, -1)
    /\ ret' = canContinue(slots)
    /\ thrown' = FALSE
    /\ UNCHANGED <<slotVars, cardVars, scoreVars, gameVars, genVars>>

NextContinue == CanContinue

SpecContinue == InitContinue /\ [][NextContinue]_vars

(***************************************************************************)
(* SpecCards: one CardManager driven through createCard, removeCard and    *)
(* clearAll; `created` records the ids createCard returned.                *)
(***************************************************************************)
MaxCreated == 4
MaxCardType == 1
MaxCardLayer == 1

\* left edges, in pixels, that make two cards overlap or not
CardXs == {0, 40}

InitCards == SlotsIdle /\ CardsIdle /\ ScoreIdle /\ GameIdle /\ GenIdle /\ CallIdle

CreateCard(type, x, y, layer) ==
    LET r == createCard([cards |-> cards, nextId |-> nextId], type, x * Unit, y * Unit, layer)
    IN /\ Len(created) < MaxCreated
       /\ cards' = r.cards
       /\ nextId' = r.nextId
       /\ created' = Append(created, r.id)
       /\ lastOp' = Call("createCard", r.id, type)
       /\ ret' = TRUE
       /\ thrown' = FALSE
       /\ UNCHANGED <<slotVars, scoreVars, gameVars, genVars>>

RemoveCard(id) ==
    /\ cards' = removeCard(cards, id)
    /\ lastOp' = Call("removeCard", id, -1)
    /\ ret' = FALSE
    /\ thrown' = FALSE
    /\ UNCHANGED <<nextId, created, slotVars, scoreVars, gameVars, genVars>>

ClearAllCards ==
    LET r == clearAllCards([cards |-> cards, nextId |-> nextId])
    IN /\ cards' = r.cards
       /\ nextId' = r.nextId
       /\ lastOp' = Call("clearAllCards", -1, -1)
       /\ ret' = FALSE
       /\ thrown' = FALSE
       /\ UNCHANGED <<created, slotVars, scoreVars, gameVars, genVars>>

NextCards ==
    \/ \E type \in 0..MaxCardType, x \in CardXs, layer \in 0..MaxCardLayer : CreateCard(type, x, 0, layer)
    \/ \E id \in 0..MaxCreated : RemoveCard(id)
    \/ ClearAllCards

SpecCards == InitCards /\ [][NextCards]_vars

(***************************************************************************)
(* SpecOverlap: checkOverlap called on two cards of a CardManager, in both *)
(* orders.  Card 0 sits in a corner of the integer grid 0..GridMax x       *)
(* 0..GridMax and card 1 anywhere on it, so that every difference of       *)
(* -GridMax..GridMax occurs on each axis.                                  *)
(***************************************************************************)
GridMax == 67

InitOverlap ==
    /\ \E ax \in {0, GridMax}, ay \in {0, GridMax}, bx \in 0..GridMax, by \in 0..GridMax :
          cards = [i \in {0, 1} |-> IF i = 0 THEN Card(0, ax * Unit, ay * Unit, 0)
                                             ELSE Card(0, bx * Unit, by * Unit, 1)]
    /\ nextId = 2
    /\ created = <<>>
    /\ SlotsIdle /\ ScoreIdle /\ GameIdle /\ GenIdle /\ CallIdle

\* checkOverlap(cards.get(id1), cards.get(id2)); lastOp keeps id1 in .id and id2 in .type
CheckOverlap(id1, id2) ==
    /\ id1 \in DOMAIN cards /\ id2 \in DOMAIN cards
    /\ lastOp' = Call("checkOverlap", id1, id2)
    /\ ret' = checkOverlap(cards[id1], cards[id2])
    /\ thrown' = FALSE
    /\ UNCHANGED <<slotVars, cardVars, scoreVars, gameVars, genVars>>

NextOverlap == \E id1, id2 \in {0, 1} : CheckOverlap(id1, id2)

SpecOverlap == InitOverlap /\ [][NextOverlap]_vars

(***************************************************************************)
(* SpecStates: updateCardStates called again and again on an arbitrary     *)
(* field of StateCards cards: any left edge of CardXs, any layer, in a     *)
(* slot or not, disabled or not.  lastOp.id counts the calls.              *)
(***************************************************************************)
StateCards == 3
MaxStateLayer == 2
MaxStateCalls == 2

InitStates ==
    /\ cards \in [0..(StateCards - 1) ->
                    [type : {0}, x : {x * Unit : x \in CardXs}, y : {0}, layer : 0..MaxStateLayer,
                     isDisabled : BOOLEAN, inSlot : BOOLEAN]]
    /\ nextId = StateCards
    /\ created = <<>>
    /\ SlotsIdle /\ ScoreIdle /\ GameIdle /\ GenIdle /\ CallIdle

UpdateCardStates ==
    /\ lastOp.id < MaxStateCalls
    /\ cards' = updateCardStates(cards)
    /\ lastOp' = Call("updateCardStates", IF lastOp.id < 0 THEN 1 ELSE lastOp.id + 1, -1)
    /\ ret' = FALSE
    /\ thrown' = FALSE
    /\ UNCHANGED <<nextId, created, slotVars, scoreVars, gameVars, genVars>>

NextStates == UpdateCardStates

SpecStates == InitStates /\ [][NextStates]_vars

(***************************************************************************)
(* SpecScore: one ScoreManager, constructed over a stored best score,      *)
(* driven through addEliminationScore, getLevelCompletionBonus, resetCombo *)
(* and reset.  Scoring calls are explored while currentScore is at most    *)
(* MaxScore.  lastOp.id is the argument of the call, ret what it returned. *)
(***************************************************************************)
MaxScore == 300
MaxEliminated == 3
MaxBonusLevel == 2

\* what localStorage holds under tileGameHighScore when the manager is built
StoredBests == {0, 120}

\* the ScoreManager as a record, and the ScoreManager becoming the record sc
ScoreHere ==
    [currentScore |-> currentScore, highScore |-> highScore, combo |-> combo,
     maxCombo |-> maxCombo, eliminationCount |-> eliminationCount]

ScoreBecomes(sc) ==
    /\ currentScore' = sc.currentScore /\ highScore' = sc.highScore /\ combo' = sc.combo
    /\ maxCombo' = sc.maxCombo /\ eliminationCount' = sc.eliminationCount
    /\ thrown' = FALSE
    /\ UNCHANGED <<slotVars, cardVars, gameVars, genVars>>

InitScore ==
    /\ currentScore = 0 /\ combo = 0 /\ maxCombo = 0 /\ eliminationCount = 0
    /\ highScore \in StoredBests
    /\ SlotsIdle /\ CardsIdle /\ GameIdle /\ GenIdle /\ CallIdle

AddEliminationScore(cardsEliminated) ==
    /\ currentScore <= MaxScore
    /\ ScoreBecomes(addEliminationScore(ScoreHere, cardsEliminated))
    /\ lastOp' = Call("addEliminationScore", cardsEliminated, -1)
    /\ ret' = addEliminationScoreReturn(ScoreHere, cardsEliminated)

GetLevelCompletionBonus(level) ==
    /\ currentScore <= MaxScore
    /\ ScoreBecomes(getLevelCompletionBonus(ScoreHere, level))
    /\ lastOp' = Call("getLevelCompletionBonus", level, -1)
    /\ ret' = getLevelCompletionBonusReturn(ScoreHere, level)

ResetCombo ==
    /\ ScoreBecomes(resetCombo(ScoreHere))
    /\ lastOp' = Call("resetCombo", -1, -1)
    /\ ret' = FALSE

ResetScore ==
    /\ ScoreBecomes(resetScore(ScoreHere))
    /\ lastOp' = Call("reset", -1, -1)
    /\ ret' = FALSE

NextScore ==
    \/ \E cardsEliminated \in 1..MaxEliminated : AddEliminationScore(cardsEliminated)
    \/ \E level \in 1..MaxBonusLevel : GetLevelCompletionBonus(level)
    \/ ResetCombo
    \/ ResetScore

SpecScore == InitScore /\ [][NextScore]_vars

(***************************************************************************)
(* SpecBoard: one LeaderboardManager that found nothing in localStorage,   *)
(* driven through addScore, canEnterLeaderboard and clearLeaderboard with  *)
(* scores of 0..MaxBoardScore, a level that is missing (0) or 1 and a      *)
(* combo that is missing (0).  lastOp keeps the score in .id.              *)
(***************************************************************************)
MaxBoardScore == 2

InitBoard == SlotsIdle /\ CardsIdle /\ ScoreIdle /\ GameIdle /\ GenIdle /\ CallIdle

AddScore(score, level) ==
    LET scoreData == [score |-> score, level |-> level, combo |-> 0]
    IN /\ leaderboard' = addScore(leaderboard, scoreData)
       /\ ret' = addScoreReturn(leaderboard, scoreData)
       /\ lastOp' = Call("addScore", score, -1)
       /\ thrown' = FALSE
       /\ UNCHANGED <<isPaused, isGameOver, isPlaying, currentLevel, nextLevelTimer>>
       /\ UNCHANGED <<slotVars, cardVars, scoreVars, genVars>>

CanEnterLeaderboard(score) ==
    /\ ret' = canEnterLeaderboard(leaderboard, score)
    /\ lastOp' = Call("canEnterLeaderboard", score, -1)
    /\ thrown' = FALSE
    /\ UNCHANGED <<slotVars, cardVars, scoreVars, gameVars, genVars>>

ClearLeaderboard ==
    /\ leaderboard' = clearLeaderboard(leaderboard)
    /\ ret' = FALSE
    /\ lastOp' = Call("clearLeaderboard", -1, -1)
    /\ thrown' = FALSE
    /\ UNCHANGED <<isPaused, isGameOver, isPlaying, currentLevel, nextLevelTimer>>
    /\ UNCHANGED <<slotVars, cardVars, scoreVars, genVars>>

NextBoard ==
    \/ \E score \in 0..MaxBoardScore, level \in {0, 1} : AddScore(score, level)
    \/ \E score \in 0..MaxBoardScore : CanEnterLeaderboard(score)
    \/ ClearLeaderboard

SpecBoard == InitBoard /\ [][NextBoard]_vars

(***************************************************************************)
(* SpecNav: one LevelManager driven through nextLevel, goToLevel,          *)
(* resetToFirstLevel, getLevelConfig and getCurrentLevelConfig, with level *)
(* numbers from MaxNavOvershoot below 1 to MaxNavOvershoot above maxLevel. *)
(* lastOp keeps the level number passed in .id.                            *)
(***************************************************************************)
MaxNavOvershoot == 2

NavLevels == (1 - MaxNavOvershoot)..(maxLevel + MaxNavOvershoot)

InitNav == SlotsIdle /\ CardsIdle /\ ScoreIdle /\ GameIdle /\ GenIdle /\ CallIdle

NavBecomes(level) ==
    /\ currentLevel' = level
    /\ thrown' = FALSE
    /\ UNCHANGED <<isPaused, isGameOver, isPlaying, leaderboard, nextLevelTimer>>
    /\ UNCHANGED <<slotVars, cardVars, scoreVars, genVars>>

LevelManagerNextLevel ==
    /\ NavBecomes(nextLevel(currentLevel))
    /\ ret' = nextLevelReturn(currentLevel)
    /\ lastOp' = Call("nextLevel", -1, -1)

GoToLevel(level) ==
    /\ NavBecomes(goToLevel(currentLevel, level))
    /\ ret' = goToLevelReturn(level)
    /\ lastOp' = Call("goToLevel", level, -1)

ResetToFirstLevel ==
    /\ NavBecomes(resetToFirstLevel)
    /\ ret' = FALSE
    /\ lastOp' = Call("resetToFirstLevel", -1, -1)

GetLevelConfig(level) ==
    /\ NavBecomes(currentLevel)
    /\ ret' = getLevelConfig(level)
    /\ lastOp' = Call("getLevelConfig", level, -1)

GetCurrentLevelConfig ==
    /\ NavBecomes(currentLevel)
    /\ ret' = CurrentLevelConfigRead(currentLevel)
    /\ lastOp' = Call("getCurrentLevelConfig", -1, -1)

NextNav ==
    \/ LevelManagerNextLevel
    \/ \E level \in NavLevels : GoToLevel(level)
    \/ ResetToFirstLevel
    \/ \E level \in NavLevels : GetLevelConfig(level)
    \/ GetCurrentLevelConfig

SpecNav == InitNav /\ [][NextNav]_vars

(***************************************************************************)
(* SpecLevel: generateLevelLayout called once on a new CardManager, for any *)
(* level 1..10, any of the card areas and any stream of random numbers, on *)
(* a page that defines the globals generateCardPositions reads or on one   *)
(* that does not.                                                          *)
(***************************************************************************)
\* offsetWidth x offsetHeight of the card area: not laid out (the defaults
\* 500 x 400 apply), smaller than one card, and larger than the default
Areas == {[w |-> 0, h |-> 0], [w |-> 100, h |-> 100], [w |-> 900, h |-> 700]}

InitLevel ==
    /\ hostGlobals \in BOOLEAN
    /\ search = NoSearch
    /\ genTypes = <<>> /\ genPositions = <<>>
    /\ SlotsIdle /\ CardsIdle /\ ScoreIdle /\ GameIdle /\ CallIdle

GenerateLevelLayout(level, area, rng) ==
    LET r == generateLevelLayout(getLevelConfig(level), [cards |-> cards, nextId |-> nextId],
                                 area, rng, hostGlobals)
    IN /\ lastOp.name = "new"
       /\ cards' = r.cards
       /\ nextId' = r.nextId
       /\ genTypes' = r.cardTypes
       /\ genPositions' = r.positions
       /\ thrown' = r.thrown
       /\ lastOp' = Call("generateLevelLayout", level, -1)
       /\ ret' = FALSE
       /\ UNCHANGED <<created, hostGlobals, search, slotVars, scoreVars, gameVars>>

NextLevel == \E level \in 1..maxLevel, area \in Areas, rng \in Streams : GenerateLevelLayout(level, area, rng)

SpecLevel == InitLevel /\ [][NextLevel]_vars

(***************************************************************************)
(* SpecGame: one Game from its construction on, driven by cardClicked      *)
(* events carrying any card id (a card of the field, a card in a slot, an  *)
(* id no card has), by the restart and next-level operations and by the    *)
(* pause button.  A new game, a restart or a next level is explored from   *)
(* the states whose best score is at most MaxCarriedScore, and a next      *)
(* level below MaxPlayLevel.                                               *)
(***************************************************************************)
\* the card area of the page the game runs in
GameAreas == {[w |-> 0, h |-> 0]}

\* the streams the game's generations draw from: at level 2 both cover some
\* cards of the lower layer and leave others free
GameStreams == {[seed |-> 1, step |-> 1], [seed |-> 3, step |-> 1]}

\* the ids a cardClicked event can carry
ClickIds == 0..PlayMaxCards

\* the game as a record, and the game becoming the record g
Here ==
    [cards |-> cards, nextId |-> nextId, slots |-> slots, events |-> <<>>,
     sc |-> [currentScore |-> currentScore, highScore |-> highScore, combo |-> combo,
             maxCombo |-> maxCombo, eliminationCount |-> eliminationCount],
     isPaused |-> isPaused, isGameOver |-> isGameOver, isPlaying |-> isPlaying,
     currentLevel |-> currentLevel, leaderboard |-> leaderboard,
     nextLevelTimer |-> nextLevelTimer, thrown |-> FALSE,
     genTypes |-> genTypes, genPositions |-> genPositions]

Becomes(g) ==
    /\ cards' = g.cards /\ nextId' = g.nextId /\ slots' = g.slots /\ events' = g.events
    /\ currentScore' = g.sc.currentScore /\ highScore' = g.sc.highScore /\ combo' = g.sc.combo
    /\ maxCombo' = g.sc.maxCombo /\ eliminationCount' = g.sc.eliminationCount
    /\ isPaused' = g.isPaused /\ isGameOver' = g.isGameOver /\ isPlaying' = g.isPlaying
    /\ currentLevel' = g.currentLevel /\ leaderboard' = g.leaderboard
    /\ nextLevelTimer' = g.nextLevelTimer /\ thrown' = g.thrown
    /\ genTypes' = g.genTypes /\ genPositions' = g.genPositions
    /\ UNCHANGED <<created, hostGlobals, search>>

\* the managers as their constructors leave them, slotManager.initialize() done
Constructed ==
    [cards |-> NoCards, nextId |-> 0, slots |-> InitialSlots, events |-> <<>>,
     sc |-> [currentScore |-> 0, highScore |-> 0, combo |-> 0, maxCombo |-> 0, eliminationCount |-> 0],
     isPaused |-> FALSE, isGameOver |-> FALSE, isPlaying |-> FALSE,
     currentLevel |-> 1, leaderboard |-> <<>>, nextLevelTimer |-> FALSE, thrown |-> FALSE,
     genTypes |-> <<>>, genPositions |-> <<>>]

\* new Game(): the constructor ends in initialize(), which ends in startNewGame()
InitGame ==
    /\ hostGlobals \in BOOLEAN
    /\ search = NoSearch
    /\ created = <<>>
    /\ lastOp = Call("new", -1, -1)
    /\ ret = FALSE
    /\ \E area \in GameAreas, rng \in GameStreams :
         \E g \in {startNewGame(Constructed, area, rng, hostGlobals, PlayMaxCards)} :
            /\ cards = g.cards /\ nextId = g.nextId /\ slots = g.slots /\ events = g.events
            /\ currentScore = g.sc.currentScore /\ highScore = g.sc.highScore /\ combo = g.sc.combo
            /\ maxCombo = g.sc.maxCombo /\ eliminationCount = g.sc.eliminationCount
            /\ isPaused = g.isPaused /\ isGameOver = g.isGameOver /\ isPlaying = g.isPlaying
            /\ currentLevel = g.currentLevel /\ leaderboard = g.leaderboard
            /\ nextLevelTimer = g.nextLevelTimer /\ thrown = g.thrown
            /\ genTypes = g.genTypes /\ genPositions = g.genPositions

\* a cardClicked event carrying cardId
Click(cardId) ==
    \E r \in {cardClicked(Here, cardId)} :
       /\ Becomes(r.g)
       /\ lastOp' = Call("click", cardId, -1)
       /\ ret' = r.handled

StartNewGame(area, rng) ==
    /\ highScore <= MaxCarriedScore
    /\ \E g \in {startNewGame(Here, area, rng, hostGlobals, PlayMaxCards)} : Becomes(g)
    /\ lastOp' = Call("startNewGame", -1, -1)
    /\ ret' = FALSE

StartNextLevel(area, rng) ==
    /\ highScore <= MaxCarriedScore
    /\ currentLevel < MaxPlayLevel
    /\ \E g \in {startNextLevel(Here, area, rng, hostGlobals, PlayMaxCards)} : Becomes(g)
    /\ lastOp' = Call("startNextLevel", -1, -1)
    /\ ret' = FALSE

RestartCurrentLevel(area, rng) ==
    /\ highScore <= MaxCarriedScore
    /\ \E g \in {restartCurrentLevel(Here, area, rng, hostGlobals, PlayMaxCards)} : Becomes(g)
    /\ lastOp' = Call("restartCurrentLevel", -1, -1)
    /\ ret' = FALSE

PauseGame ==
    /\ \E g \in {pauseGame(Here)} : Becomes(g)
    /\ lastOp' = Call("pauseGame", -1, -1)
    /\ ret' = FALSE

NextGame ==
    \/ \E cardId \in ClickIds : Click(cardId)
    \/ \E area \in GameAreas, rng \in GameStreams : StartNewGame(area, rng)
    \/ \E area \in GameAreas, rng \in GameStreams : StartNextLevel(area, rng)
    \/ \E area \in GameAreas, rng \in GameStreams : RestartCurrentLevel(area, rng)
    \/ PauseGame

SpecGame == InitGame /\ [][NextGame]_vars

(***************************************************************************)
(* SpecPlay: the Game of SpecGame with its cardClicked events restricted   *)
(* to the cards getClickabledCards() returns: the cards of the field that  *)
(* are not disabled.                                                       *)
(***************************************************************************)
ClickFieldCard(cardId) ==
    /\ cardId \in getClickabledCards(cards)
    /\ Click(cardId)

NextPlay ==
    \/ \E cardId \in ClickIds : ClickFieldCard(cardId)
    \/ \E area \in GameAreas, rng \in GameStreams : StartNewGame(area, rng)
    \/ \E area \in GameAreas, rng \in GameStreams : StartNextLevel(area, rng)
    \/ \E area \in GameAreas, rng \in GameStreams : RestartCurrentLevel(area, rng)
    \/ PauseGame

SpecPlay == InitGame /\ [][NextPlay]_vars

(***************************************************************************)
(* SpecLoss: one Game whose fields are capped at LossMaxCards cards, so    *)
(* that level 2 deals all four of its card types and the queue can fill    *)
(* up without a match.  The game is driven by cardClicked events carrying  *)
(* the ids of LossClickIds, by the restart and next-level operations, and  *)
(* by handleCardClick called on a card while the queue is full (the only   *)
(* way an add can fail: the listener ignores clicks once the game is       *)
(* over).  A new game or a restart is explored from the states that have   *)
(* ended in a loss with no best score and at most MaxLossRecorded          *)
(* leaderboard entries, a next level from the states with no best score.   *)
(***************************************************************************)
LossMaxCards == 12
MaxLossRecorded == 1

LossStreams == {[seed |-> 3, step |-> 1]}

\* at level 2 of the stream: five free cards, two of one type and one of
\* each other type
LossClickIds == {1, 3, 5, 6, 9}

InitLoss ==
    /\ hostGlobals = TRUE
    /\ search = NoSearch
    /\ created = <<>>
    /\ lastOp = Call("new", -1, -1)
    /\ ret = FALSE
    /\ \E area \in GameAreas, rng \in LossStreams :
         \E g \in {startNewGame(Constructed, area, rng, hostGlobals, LossMaxCards)} :
            /\ cards = g.cards /\ nextId = g.nextId /\ slots = g.slots /\ events = g.events
            /\ currentScore = g.sc.currentScore /\ highScore = g.sc.highScore /\ combo = g.sc.combo
            /\ maxCombo = g.sc.maxCombo /\ eliminationCount = g.sc.eliminationCount
            /\ isPaused = g.isPaused /\ isGameOver = g.isGameOver /\ isPlaying = g.isPlaying
            /\ currentLevel = g.currentLevel /\ leaderboard = g.leaderboard
            /\ nextLevelTimer = g.nextLevelTimer /\ thrown = g.thrown
            /\ genTypes = g.genTypes /\ genPositions = g.genPositions

\* handleCardClick(card) called on a card of the game while the queue is full
HandleCardClick(id) ==
    /\ id \in DOMAIN cards
    /\ isFull(slots)
    /\ \E r \in {handleCardClick(Here, id)} :
          /\ Becomes(r.g)
          /\ ret' = r.handled
    /\ lastOp' = Call("handleCardClick", id, -1)

LossStartNewGame(area, rng) ==
    /\ isGameOver /\ ~nextLevelTimer /\ highScore = 0 /\ Len(leaderboard) <= MaxLossRecorded
    /\ \E g \in {startNewGame(Here, area, rng, hostGlobals, LossMaxCards)} : Becomes(g)
    /\ lastOp' = Call("startNewGame", -1, -1)
    /\ ret' = FALSE

LossStartNextLevel(area, rng) ==
    /\ highScore = 0
    /\ currentLevel < MaxPlayLevel
    /\ \E g \in {startNextLevel(Here, area, rng, hostGlobals, LossMaxCards)} : Becomes(g)
    /\ lastOp' = Call("startNextLevel", -1, -1)
    /\ ret' = FALSE

LossRestartCurrentLevel(area, rng) ==
    /\ isGameOver /\ ~nextLevelTimer /\ highScore = 0 /\ Len(leaderboard) <= MaxLossRecorded
    /\ \E g \in {restartCurrentLevel(Here, area, rng, hostGlobals, LossMaxCards)} : Becomes(g)
    /\ lastOp' = Call("restartCurrentLevel", -1, -1)
    /\ ret' = FALSE

NextLoss ==
    \/ \E cardId \in LossClickIds : Click(cardId)
    \/ \E id \in LossClickIds : HandleCardClick(id)
    \/ \E area \in GameAreas, rng \in LossStreams : LossStartNewGame(area, rng)
    \/ \E area \in GameAreas, rng \in LossStreams : LossStartNextLevel(area, rng)
    \/ \E area \in GameAreas, rng \in LossStreams : LossRestartCurrentLevel(area, rng)

SpecLoss == InitLoss /\ [][NextLoss]_vars

(***************************************************************************)
(* SpecFlags: the Game of SpecLoss (fields capped at LossMaxCards cards)   *)
(* driven by cardClicked events carrying the ids of FlagClickIds, by the   *)
(* pause button and by the three operations that start a level, up to      *)
(* level MaxFlagLevel.  A level is started from the states with no best    *)
(* score and at most MaxLossRecorded leaderboard entries.                  *)
(***************************************************************************)
MaxFlagLevel == 3

\* at level 2 of the stream: four free cards of four types
FlagClickIds == {1, 3, 5, 6}

FlagsStartNewGame(area, rng) ==
    /\ highScore = 0 /\ Len(leaderboard) <= MaxLossRecorded
    /\ \E g \in {startNewGame(Here, area, rng, hostGlobals, LossMaxCards)} : Becomes(g)
    /\ lastOp' = Call("startNewGame", -1, -1)
    /\ ret' = FALSE

FlagsStartNextLevel(area, rng) ==
    /\ highScore = 0 /\ Len(leaderboard) <= MaxLossRecorded
    /\ currentLevel < MaxFlagLevel
    /\ \E g \in {startNextLevel(Here, area, rng, hostGlobals, LossMaxCards)} : Becomes(g)
    /\ lastOp' = Call("startNextLevel", -1, -1)
    /\ ret' = FALSE

FlagsRestartCurrentLevel(area, rng) ==
    /\ highScore = 0 /\ Len(leaderboard) <= MaxLossRecorded
    /\ \E g \in {restartCurrentLevel(Here, area, rng, hostGlobals, LossMaxCards)} : Becomes(g)
    /\ lastOp' = Call("restartCurrentLevel", -1, -1)
    /\ ret' = FALSE

NextFlags ==
    \/ \E cardId \in FlagClickIds : Click(cardId)
    \/ PauseGame
    \/ \E area \in GameAreas, rng \in LossStreams : FlagsStartNewGame(area, rng)
    \/ \E area \in GameAreas, rng \in LossStreams : FlagsStartNextLevel(area, rng)
    \/ \E area \in GameAreas, rng \in LossStreams : FlagsRestartCurrentLevel(area, rng)

SpecFlags == InitLoss /\ [][NextFlags]_vars

(***************************************************************************)
(* SpecSolve: a field generateLevelLayout emitted (any level 1..10, any of *)
(* the areas, any stream) is searched exhaustively for a sequence of       *)
(* clicks that wins it.  A position of play is the set `rem` of cards      *)
(* still in the field and the slot array; a click takes a card of the      *)
(* field that no higher-layer card of the field overlaps, hands it to      *)
(* addCard, and loses when canContinue() is then false.  The search is     *)
(* depth-first, one step per action: it never tries two cards of equal     *)
(* type, position and layer from one position (they are interchangeable),  *)
(* and never re-enters a position it has found to be lost (positions with  *)
(* the same rem and the same number of slot entries of each type have the  *)
(* same continuations).                                                    *)
(***************************************************************************)
\* for each card, the cards of a strictly greater layer that overlap it
Covering(cs) ==
    [i \in DOMAIN cs |-> {o \in DOMAIN cs : cs[o].layer > cs[i].layer /\ checkOverlap(cs[i], cs[o])}]

\* the cards of rem a click is served for
Free(cover, rem) == {i \in rem : cover[i] \cap rem = {}}

SameCard(c1, c2) == c1.type = c2.type /\ c1.x = c2.x /\ c1.y = c2.y /\ c1.layer = c2.layer

\* the clicks to try from rem: the free cards, one of each kind, lowest id first
Moves(cs, cover, rem) ==
    LET free == Free(cover, rem)
    IN AscSeq({i \in free : ~\E j \in free : j < i /\ SameCard(cs[i], cs[j])})

\* what a position's continuations depend on
PositionKey(rem, s) == <<rem, {<<t, Len(TypeIndices(s, t))>> : t \in Range(TypeKeys(s))}>>

InitSolve ==
    /\ hostGlobals = TRUE
    /\ search = NoSearch
    /\ genTypes = <<>> /\ genPositions = <<>>
    /\ SlotsIdle /\ CardsIdle /\ ScoreIdle /\ GameIdle /\ CallIdle

StartSearch ==
    /\ lastOp.name = "generateLevelLayout" /\ ~thrown
    /\ search.verdict = "none"
    /\ search' = [verdict |-> "searching",
                  cover |-> Covering(cards),
                  stack |-> <<[rem |-> DOMAIN cards, slots |-> InitialSlots,
                               moves |-> Moves(cards, Covering(cards), DOMAIN cards)]>>,
                  failed |-> {}]
    /\ UNCHANGED <<slotVars, callVars, cardVars, scoreVars, gameVars, hostGlobals, genTypes, genPositions>>

SearchStep ==
    /\ search.verdict = "searching"
    /\ LET depth == Len(search.stack)
           top == search.stack[depth]
           below == SubSeq(search.stack, 1, depth - 1)
       IN \E next \in {
              IF top.rem = {} /\ getCardCount(top.slots) = 0
              THEN [search EXCEPT !.verdict = "solvable"]
              ELSE IF top.moves = <<>>
              THEN [search EXCEPT !.stack = below,
                                  !.failed = @ \cup {PositionKey(top.rem, top.slots)},
                                  !.verdict = IF depth = 1 THEN "unsolvable" ELSE @]
              ELSE LET i == Head(top.moves)
                       rest == [top EXCEPT !.moves = Tail(@)]
                       after == addCard(top.slots, [id |-> i, type |-> cards[i].type]).slots
                       rem == top.rem \ {i}
                   IN IF ~canContinue(after) \/ PositionKey(rem, after) \in search.failed
                      THEN [search EXCEPT !.stack = Append(below, rest)]
                      ELSE [search EXCEPT !.stack = Append(Append(below, rest),
                                [rem |-> rem, slots |-> after,
                                 moves |-> Moves(cards, search.cover, rem)])]} :
              search' = next
    /\ UNCHANGED <<slotVars, callVars, cardVars, scoreVars, gameVars, hostGlobals, genTypes, genPositions>>

NextSolve ==
    \/ \E level \in 1..maxLevel, area \in Areas, rng \in Streams : GenerateLevelLayout(level, area, rng)
    \/ StartSearch
    \/ SearchStep

SpecSolve == InitSolve /\ [][NextSolve]_vars

(***************************************************************************)
(* Properties of the slot queue.                                           *)
(***************************************************************************)
\* the 0-based indices of the occupied slots, and of those holding type t
Occupied(s) == {i - 1 : i \in {j \in DOMAIN s : s[j] # NullSlot}}
OfType(s, t) == {i \in Occupied(s) : s[i + 1].type = t}

\* the three lowest indices holding type t
ThreeLowest(s, t) == {i \in OfType(s, t) : Cardinality({j \in OfType(s, t) : j < i}) < 3}

\* the types with three or more occupants
Matched(s) == {t \in {s[i + 1].type : i \in Occupied(s)} : Cardinality(OfType(s, t)) >= 3}

\* the entries of s outside the indices Gone, in index order
Survivors(s, Gone) == LET idx == AscSeq(Occupied(s) \ Gone) IN [k \in DOMAIN idx |-> s[idx[k] + 1]]

\* s holds exactly the entries of seq, in that order, from index 0 on
LeftCompacted(s, seq) ==
    /\ Len(seq) <= Len(s)
    /\ \A i \in DOMAIN s : s[i] = IF i <= Len(seq) THEN seq[i] ELSE NullSlot

\* C1: the queue never holds more than 7 cards, and addCard on a queue with
\* no empty slot returns false, changes no slot and dispatches no event.
C1_FullAddStep ==
    (lastOp'.name = "addCard" /\ \A i \in DOMAIN slots : slots[i] # NullSlot)
        => (ret' = FALSE /\ slots' = slots /\ events' = <<>>)

C1_CapacityNeverExceeded ==
    /\ [](Len(slots) = maxSlots /\ Cardinality(Occupied(slots)) <= 7)
    /\ [][C1_FullAddStep]_vars

C1_Witness ==
    /\ lastOp.name = "addCard" /\ ret = FALSE
    /\ Cardinality(Occupied(slots)) = 7

\* one event per matched type, in ascending type order, each naming the three
\* lowest indices of its type
OneEventPerMatchedType(pre, evs) ==
    /\ Len(evs) = Cardinality(Matched(pre))
    /\ {evs[k].type : k \in DOMAIN evs} = Matched(pre)
    /\ \A k \in DOMAIN evs : evs[k].indices = AscSeq(ThreeLowest(pre, evs[k].type))

RemovedBy(pre) == UNION {ThreeLowest(pre, t) : t \in Matched(pre)}

\* C2 as stated: on any slot array, checkForElimination removes exactly the
\* three lowest entries of every type with 3 or more occupants, dispatches one
\* event per such type, and leaves the survivors left-compacted in order.
C2_AsStatedStep ==
    lastOp'.name = "checkForElimination"
        => /\ OneEventPerMatchedType(slots, events')
           /\ LeftCompacted(slots', Survivors(slots, RemovedBy(slots)))

C2_AsStated == [][C2_AsStatedStep]_vars

\* C2 amended: the same, except that the survivors are left-compacted only when
\* some type was matched; with no match the array is left exactly as it was.
C2_AmendedStep ==
    lastOp'.name = "checkForElimination"
        => /\ OneEventPerMatchedType(slots, events')
           /\ ret' = (Matched(slots) # {})
           /\ IF Matched(slots) # {}
              THEN LeftCompacted(slots', Survivors(slots, RemovedBy(slots)))
              ELSE slots' = slots

C2_EliminationPass == [][C2_AmendedStep]_vars

\* [A,A,B,A,C,B,B] has become [C] with the two events A and B
C2_Witness ==
    /\ lastOp.name = "checkForElimination"
    /\ Len(events) = 2
    /\ events[1] = [type |-> 0, indices |-> <<0, 1, 3>>]
    /\ events[2] = [type |-> 1, indices |-> <<2, 5, 6>>]
    /\ LeftCompacted(slots, <<[id |-> 4, type |-> 2]>>)

\* C3: the occupied slots always form a prefix of the array, and an addCard
\* that eliminates leaves the surviving entries in the order they had.
ContiguousPrefix(s) == \A i, j \in DOMAIN s : (i < j /\ s[j] # NullSlot) => s[i] # NullSlot

C3_OrderStep ==
    (lastOp'.name = "addCard" /\ events' # <<>>)
        => LET placed == [slots EXCEPT ![Min(DOMAIN slots \ {i + 1 : i \in Occupied(slots)})] =
                                   [id |-> lastOp'.id, type |-> lastOp'.type]]
               Gone == UNION {Range(events'[k].indices) : k \in DOMAIN events'}
           IN LeftCompacted(slots', Survivors(placed, Gone))

C3_PrefixAndOrder == [](ContiguousPrefix(slots)) /\ [][C3_OrderStep]_vars

\* an elimination has left two entries of one type and different ids behind
C3_Witness ==
    /\ lastOp.name = "addCard" /\ events # <<>>
    /\ slots[1] # NullSlot /\ slots[2] # NullSlot
    /\ slots[1].type = slots[2].type /\ slots[1].id # slots[2].id

(***************************************************************************)
(* Properties of the card manager and of the level generator.              *)
(***************************************************************************)
\* C7 (as stated): every createCard returns an id strictly greater than every
\* id returned before, whatever removeCard and clearAll calls lie between.
C7_IdsNeverReused ==
    \A i, j \in 1..Len(created) : i < j => created[i] < created[j]

\* the number of entries of `type` in a type list
CountOf(types, type) == Cardinality({i \in 1..Len(types) : types[i] = type})

\* C8 (as stated): generateLevelLayout completes without raising an error,
\* generateCardPositions returns one position per entry of the type list and
\* one card is created per entry.
C8_AsStated ==
    lastOp.name = "generateLevelLayout" =>
        /\ ~thrown
        /\ Len(genPositions) = Len(genTypes)
        /\ Cardinality(DOMAIN cards) = Len(genTypes)

\* C9: the type list generateLevelLayout builds (trimmed, shuffled) has at
\* most maxCards entries and a multiple of 3 of each type.
C9_TypeListInThrees ==
    lastOp.name = "generateLevelLayout" =>
        /\ Len(genTypes) <= getLevelConfig(lastOp.id).maxCards
        /\ \A type \in Range(genTypes) : CountOf(genTypes, type) % 3 = 0

\* C9 witness: level 5, whose 60 entries were trimmed to 39 (the last type
\* keeps one group of three), in an order the shuffle changed
C9_Witness ==
    /\ lastOp.name = "generateLevelLayout" /\ lastOp.id = 5
    /\ Len(genTypes) = 39
    /\ CountOf(genTypes, 3) = 3
    /\ \E i \in 1..(Len(genTypes) - 1) : genTypes[i] > genTypes[i + 1]

(***************************************************************************)
(* Properties of the game.                                                 *)
(***************************************************************************)
\* the cards of the field: in the card map and not in a slot
InField(cs) == {i \in DOMAIN cs : ~cs[i].inSlot}

\* some other card of the field with a strictly greater layer overlaps card i
CoveredInField(cs, i) ==
    \E o \in InField(cs) \ {i} : cs[o].layer > cs[i].layer /\ checkOverlap(cs[i], cs[o])

\* C4: between any two operations of the game, every card of the field is
\* disabled if and only if a higher-layer card of the field overlaps it.
C4_DisabledIffCovered ==
    \A i \in InField(cards) : cards[i].isDisabled <=> CoveredInField(cards, i)

\* C4 witness: a click has just moved the third card of a type into the slots,
\* the three cards are eliminated and gone from the card map, and the field
\* still holds a covered and a free card
C4_Witness ==
    /\ lastOp.name = "click" /\ ret /\ events # <<>>
    /\ Cardinality(DOMAIN cards) = Len(genTypes) - 3
    /\ getCardCount(slots) = 0
    /\ \E i \in InField(cards) : cards[i].isDisabled /\ CoveredInField(cards, i)
    /\ \E i \in InField(cards) : ~cards[i].isDisabled

\* C5 (as stated): a click event whose id names a disabled card or a card held
\* in the slot queue leaves the card field, the slots and the score unchanged.
C5_IgnoredStep ==
    (/\ lastOp'.name = "click"
     /\ lastOp'.id \in DOMAIN cards
     /\ (cards[lastOp'.id].isDisabled \/ cards[lastOp'.id].inSlot))
    => (cards' = cards /\ slots' = slots /\ currentScore' = currentScore)

C5_AsStated == [][C5_IgnoredStep]_vars

\* the slot indices (1-based) that hold the card id
SlotsOf(s, id) == {i \in DOMAIN s : s[i] # NullSlot /\ s[i].id = id}

\* C6 (as stated): between events a card id occupies at most one slot, and a
\* card is referenced by a slot if and only if it is in the card map with
\* inSlot = true.
C6_AsStated ==
    \A id \in DOMAIN cards \cup {slots[i].id : i \in {j \in DOMAIN slots : slots[j] # NullSlot}} :
        /\ Cardinality(SlotsOf(slots, id)) <= 1
        /\ (SlotsOf(slots, id) # {}) <=> (id \in DOMAIN cards /\ cards[id].inSlot)

\* C10 (as stated): every field the generator emits can be won: the exhaustive
\* search for a sequence of clicks on free cards that empties the field and
\* the slots, with canContinue() true after every click, never ends without
\* finding one.
C10_AsStated == search.verdict # "unsolvable"

(***************************************************************************)
(* Properties of the score manager.                                        *)
(***************************************************************************)
\* C11: addEliminationScore(n) at combo c makes the combo c + 1, returns
\* n * 10 + (c + 1) * 20 and adds exactly that to currentScore, so that 3-card
\* eliminations from combo 0 return 50, 70, 90; resetCombo sets the combo to 0
\* and leaves currentScore alone.
C11_ScoringStep ==
    /\ lastOp'.name = "addEliminationScore" =>
         /\ combo' = combo + 1
         /\ ret' = lastOp'.id * 10 + (combo + 1) * 20
         /\ currentScore' = currentScore + ret'
         /\ (lastOp'.id = 3 /\ combo = 0) => ret' = 50
         /\ (lastOp'.id = 3 /\ combo = 1) => ret' = 70
         /\ (lastOp'.id = 3 /\ combo = 2) => ret' = 90
    /\ lastOp'.name = "resetCombo" => (combo' = 0 /\ currentScore' = currentScore)

C11_ComboScoring == [][C11_ScoringStep]_vars

\* C11 witness: 50 + 70 + 90 = 210 from three 3-card eliminations, resetCombo,
\* and a fourth elimination that returned 50 again
C11_Witness ==
    /\ lastOp = Call("addEliminationScore", 3, -1) /\ ret = 50
    /\ combo = 1 /\ maxCombo = 3 /\ eliminationCount = 4 /\ currentScore = 260

\* C13: reset() zeroes currentScore, combo, maxCombo and eliminationCount and
\* keeps highScore; highScore never decreases and is never below currentScore.
C13_ResetStep ==
    /\ highScore' >= highScore
    /\ lastOp'.name = "reset" =>
         /\ currentScore' = 0 /\ combo' = 0 /\ maxCombo' = 0 /\ eliminationCount' = 0
         /\ highScore' = highScore

C13_BestScoreKept == [](highScore >= currentScore) /\ [][C13_ResetStep]_vars

\* C13 witness: a reset after scoring past the stored best
C13_Witness ==
    /\ lastOp.name = "reset" /\ currentScore = 0 /\ highScore > 120

\* C14: getLevelCompletionBonus(level) returns level * 100 + eliminationCount * 5,
\* adds it to currentScore and leaves combo, maxCombo and eliminationCount
\* alone; eliminationCount counts the eliminations since the last reset().
C14_BonusStep ==
    /\ lastOp'.name = "getLevelCompletionBonus" =>
         /\ ret' = lastOp'.id * 100 + eliminationCount * 5
         /\ currentScore' = currentScore + ret'
         /\ combo' = combo /\ maxCombo' = maxCombo /\ eliminationCount' = eliminationCount
    /\ lastOp'.name = "addEliminationScore" => eliminationCount' = eliminationCount + 1
    /\ lastOp'.name = "reset" => eliminationCount' = 0
    /\ lastOp'.name = "resetCombo" => eliminationCount' = eliminationCount

C14_LevelBonus == (eliminationCount = 0) /\ [][C14_BonusStep]_vars

\* C14 witness: the bonus of level 2 after two eliminations and a resetCombo: 210
C14_Witness ==
    /\ lastOp = Call("getLevelCompletionBonus", 2, -1) /\ ret = 210
    /\ eliminationCount = 2 /\ combo = 0

(***************************************************************************)
(* C12.  During play the combo counter goes back to 0 only in a losing     *)
(* slot add, a next-level start or a full reset (new game, restart);       *)
(* every other step adds to it the number of cardsEliminated events the    *)
(* step dispatched, so a click that eliminates nothing leaves it unchanged *)
(* and between two resets it counts the events since the first.            *)
(***************************************************************************)
LosingStep == ~isGameOver /\ isGameOver' /\ isFull(slots')

C12_ComboStep ==
    IF lastOp'.name \in {"startNewGame", "restartCurrentLevel", "startNextLevel"}
    THEN combo' = 0
    ELSE IF LosingStep
    THEN combo' = 0 /\ events' = <<>>
    ELSE combo' = combo + Len(events')

C12_ComboCountsEvents == [][C12_ComboStep]_vars

\* a click has just lost a level-2 game in which an elimination had happened
C12_Witness ==
    /\ lastOp.name = "click" /\ ret
    /\ isGameOver /\ isFull(slots) /\ ~canContinue(slots)
    /\ currentLevel = 2 /\ eliminationCount >= 1
    /\ combo = 0 /\ maxCombo >= 1

(***************************************************************************)
(* C15, as stated.  An add attempted on a full queue fails with a boolean  *)
(* (handleCardClick neither throws nor reports success) and is followed by *)
(* the loss evaluation: checkGameState() runs on the game as the failed    *)
(* add left it, so that gameOver(false) ends the game and records the      *)
(* score.                                                                  *)
(***************************************************************************)
C15_FailedAddStep ==
    lastOp'.name = "handleCardClick" /\ isFull(slots) =>
        /\ ~thrown' /\ ~ret'
        /\ \E g \in {checkGameState(Here)} :
              /\ isGameOver' = g.isGameOver /\ isPlaying' = g.isPlaying
              /\ combo' = g.sc.combo /\ leaderboard' = g.leaderboard

C15_AsStated == [][C15_FailedAddStep]_vars

(***************************************************************************)
(* C16.  For every configuration of the 7 slots, canContinue() returns     *)
(* true if and only if at least one slot is empty or some card type has 3  *)
(* or more occupants.                                                      *)
(***************************************************************************)
SomeSlotEmpty(s) == \E i \in DOMAIN s : s[i] = NullSlot

SomeTypeThrice(s) ==
    \E t \in 0..MaxContinueType :
       Cardinality({i \in DOMAIN s : s[i] # NullSlot /\ s[i].type = t}) >= 3

C16_CanContinueIff ==
    lastOp.name = "canContinue" => (ret <=> (SomeSlotEmpty(slots) \/ SomeTypeThrice(slots)))

\* a full queue of four types with no three alike has been refused
C16_Witness ==
    /\ lastOp.name = "canContinue" /\ ~ret
    /\ ~SomeSlotEmpty(slots) /\ ~SomeTypeThrice(slots)
    /\ Cardinality({slots[i].type : i \in DOMAIN slots}) = 4

(***************************************************************************)
(* C17.  checkOverlap is symmetric: for the two cards at any positions of  *)
(* the grid, checkOverlap(a, b) = checkOverlap(b, a), and both equal       *)
(* |a.x - b.x| < 65 and |a.y - b.y| < 65 (card size 70, tolerance 5).      *)
(***************************************************************************)
Abs(n) == IF n < 0 THEN -n ELSE n

\* |a.x - b.x| < 65 and |a.y - b.y| < 65, in pixels
CloserThan65(a, b) == Abs(a.x - b.x) < 65 * Unit /\ Abs(a.y - b.y) < 65 * Unit

C17_OverlapSymmetric ==
    lastOp.name = "checkOverlap" =>
        /\ ret = checkOverlap(cards[lastOp.type], cards[lastOp.id])
        /\ ret = CloserThan65(cards[lastOp.id], cards[lastOp.type])

\* the two cards 64 pixels apart on one axis and 65 on the other, asked in
\* the order that puts the lower-right card first
C17_Witness ==
    /\ lastOp = Call("checkOverlap", 0, 1) /\ ~ret
    /\ cards[0].x - cards[1].x = 65 * Unit
    /\ cards[1].y - cards[0].y = 64 * Unit

(***************************************************************************)
(* C18.  updateCardStates is idempotent: on every field, a second call     *)
(* right after a first leaves the set of disabled cards as the first left  *)
(* it, and no call changes the isDisabled flag of a card held in a slot.   *)
(***************************************************************************)
DisabledCards(cs) == {i \in DOMAIN cs : cs[i].isDisabled}

C18_UpdateStep ==
    lastOp'.name = "updateCardStates" =>
        /\ \A i \in DOMAIN cards : cards[i].inSlot => cards'[i].isDisabled = cards[i].isDisabled
        /\ lastOp.name = "updateCardStates" => DisabledCards(cards') = DisabledCards(cards)

C18_Idempotent == [][C18_UpdateStep]_vars

\* after the second call: a disabled card in a slot, a covered card and its
\* free cover in the field
C18_Witness ==
    /\ lastOp = Call("updateCardStates", 2, -1)
    /\ \E i, j, k \in DOMAIN cards :
          /\ cards[i].inSlot /\ cards[i].isDisabled
          /\ ~cards[j].inSlot /\ cards[j].isDisabled
          /\ ~cards[k].inSlot /\ ~cards[k].isDisabled /\ cards[k].layer > cards[j].layer

(***************************************************************************)
(* C19.  After any sequence of addScore and clearLeaderboard calls from an *)
(* empty leaderboard, the list has at most 10 entries, is sorted by score  *)
(* in non-increasing order, and its ranks are 1..N in list order.          *)
(***************************************************************************)
C19_BoardSortedRanked ==
    /\ Len(leaderboard) <= 10
    /\ \A k \in 1..(Len(leaderboard) - 1) : leaderboard[k].score >= leaderboard[k + 1].score
    /\ \A k \in 1..Len(leaderboard) : leaderboard[k].rank = k

\* ten entries of three different scores, the score just added below all of
\* them, so that the sort placed it last and the cut dropped it
C19_Witness ==
    /\ lastOp.name = "addScore"
    /\ Len(leaderboard) = 10
    /\ lastOp.id < leaderboard[10].score
    /\ leaderboard[1].score > leaderboard[10].score

(***************************************************************************)
(* C20, as stated.  On a full (10-entry) leaderboard, addScore with a      *)
(* score below the lowest leaves the list unchanged and reports that the   *)
(* score was not entered (addScore returns true exactly when the new entry *)
(* is retained, and canEnterLeaderboard is false for that score); with a   *)
(* score above the lowest it evicts the previous lowest and keeps the new  *)
(* entry.                                                                  *)
(***************************************************************************)
ScoreCount(lb, score) == Cardinality({k \in DOMAIN lb : lb[k].score = score})

C20_FullBoardStep ==
    lastOp'.name = "addScore" /\ Len(leaderboard) = 10 =>
        LET score == lastOp'.id
            lowest == leaderboard[10].score
        IN /\ score < lowest =>
                /\ leaderboard' = leaderboard
                /\ ~canEnterLeaderboard(leaderboard, score)
                /\ ret' = FALSE
           /\ score > lowest =>
                /\ Len(leaderboard') = 10
                /\ ScoreCount(leaderboard', score) = ScoreCount(leaderboard, score) + 1
                /\ ScoreCount(leaderboard', lowest) = ScoreCount(leaderboard, lowest) - 1
                /\ canEnterLeaderboard(leaderboard, score)
                /\ ret' = TRUE

C20_AsStated == [][C20_FullBoardStep]_vars

\* the same step without the value addScore returns
C20_FullBoardListStep ==
    lastOp'.name = "addScore" /\ Len(leaderboard) = 10 =>
        LET score == lastOp'.id
            lowest == leaderboard[10].score
        IN /\ score < lowest =>
                leaderboard' = leaderboard /\ ~canEnterLeaderboard(leaderboard, score)
           /\ score > lowest =>
                /\ Len(leaderboard') = 10
                /\ ScoreCount(leaderboard', score) = ScoreCount(leaderboard, score) + 1
                /\ ScoreCount(leaderboard', lowest) = ScoreCount(leaderboard, lowest) - 1
                /\ canEnterLeaderboard(leaderboard, score)

C20_ListAsStated == [][C20_FullBoardListStep]_vars

(***************************************************************************)
(* C21, as stated.  For every level 1..10 the field generateLevelLayout    *)
(* produced holds at least one card of each of the types                   *)
(* 0..config.cardTypes-1 and no card of another type.                      *)
(***************************************************************************)
FieldTypes(cs) == {cs[i].type : i \in DOMAIN cs}

C21_AsStated ==
    lastOp.name = "generateLevelLayout" /\ lastOp.id \in 1..maxLevel /\ ~thrown =>
        FieldTypes(cards) = 0..(LevelConfig(lastOp.id).cardTypes - 1)

\* the half of it that holds: no card has a type outside the configured range
C21_TypesInRange ==
    lastOp.name = "generateLevelLayout" /\ lastOp.id \in 1..maxLevel /\ ~thrown =>
        FieldTypes(cards) \subseteq 0..(LevelConfig(lastOp.id).cardTypes - 1)

(***************************************************************************)
(* C22.  Over any sequence of nextLevel, goToLevel(n) and                  *)
(* resetToFirstLevel, currentLevel stays within 1..maxLevel, so that       *)
(* getCurrentLevelConfig returns a configuration; nextLevel returns true   *)
(* exactly when it increased currentLevel by 1 and leaves the level        *)
(* unchanged at maxLevel; getLevelConfig(n) returns null exactly when      *)
(* n < 1 or n > maxLevel.                                                  *)
(***************************************************************************)
C22_NavStep ==
    /\ currentLevel' \in 1..maxLevel
    /\ lastOp'.name = "nextLevel" =>
          /\ ret' <=> currentLevel' = currentLevel + 1
          /\ ~ret' => currentLevel' = currentLevel
          /\ currentLevel = maxLevel => currentLevel' = currentLevel
    /\ lastOp'.name = "getLevelConfig" =>
          ((ret' = NoConfig) <=> (lastOp'.id < 1 \/ lastOp'.id > maxLevel))
    /\ lastOp'.name = "getCurrentLevelConfig" =>
          ret' # NoConfig /\ ret'.level = currentLevel

C22_LevelStaysInRange == (currentLevel \in 1..maxLevel) /\ [][C22_NavStep]_vars

\* nextLevel() has just been refused at the last level
C22_Witness == lastOp.name = "nextLevel" /\ ~ret /\ currentLevel = maxLevel

(***************************************************************************)
(* C23, as stated.  Whenever a click completes an elimination after which  *)
(* no card remains in the field and the slot queue is empty, the game      *)
(* enters the win state: gameOver(true) has run, the level-completion      *)
(* bonus is in the score once and the start of the next level is pending.  *)
(***************************************************************************)
C23_ClearingStep ==
    /\ lastOp'.name = "click" /\ ret' /\ events' # <<>>
    /\ InField(cards') = {} /\ getCardCount(slots') = 0

C23_WinStep ==
    C23_ClearingStep =>
        /\ isGameOver' /\ ~isPlaying' /\ nextLevelTimer'
        /\ currentScore' = currentScore
                            + Len(events') * addEliminationScoreReturn(ScoreHere, 3)
                            + getLevelCompletionBonusReturn(
                                  addEliminationScore(ScoreHere, 3), currentLevel)

C23_AsStated == [][C23_WinStep]_vars

\* what the code does instead: the clearing click leaves the game playing,
\* with no bonus and no next level pending
C23_ClearedButPlaying ==
    [][C23_ClearingStep => isPlaying' /\ ~isGameOver' /\ ~nextLevelTimer']_vars

\* gameOver(true) never runs
C23_NeverWon == ~nextLevelTimer

(***************************************************************************)
(* C24.  A processed click ends the game in the loss state if and only if, *)
(* after its add and any elimination it caused, the slot queue holds 7     *)
(* cards; so in every state between events in which the game is playing    *)
(* the queue has an empty slot.                                            *)
(***************************************************************************)
C24_ClickStep ==
    lastOp'.name = "click" /\ ret' =>
        ((isGameOver' /\ ~isPlaying' /\ ~nextLevelTimer') <=> getCardCount(slots') = 7)

C24_LossIffFull == [](isPlaying => getCardCount(slots) < 7) /\ [][C24_ClickStep]_vars

\* a click has just filled the queue and lost the game, which was recorded
C24_Witness ==
    /\ lastOp.name = "click" /\ ret
    /\ getCardCount(slots) = 7
    /\ isGameOver /\ ~isPlaying
    /\ leaderboard # <<>>

(***************************************************************************)
(* C25, as stated.  When a click completes a triple, handling the          *)
(* elimination event removes from the card map exactly the three cards     *)
(* that occupy the eliminated slots (read while the slots still hold them) *)
(* and no other card, addEliminationScore(3) is applied once per event,    *)
(* and afterwards none of the three ids is in the card map or in a slot.   *)
(***************************************************************************)
\* the slot array as addCard has it when it dispatches the events of a click
\* on the card `id`
PlacedBy(s, cs, id) ==
    [s EXCEPT ![FindEmptyIndex(s) + 1] = [id |-> id, type |-> cs[id].type]]

\* the ids held by the slots an event names
Occupants(placed, ev) == {placed[i + 1].id : i \in Range(ev.indices)}

EliminatedIds(placed, evs) == UNION {Occupants(placed, evs[k]) : k \in DOMAIN evs}

\* the step without the count of the cards
C25_OccupantsStep ==
    lastOp'.name = "click" /\ ret' /\ events' # <<>> =>
        LET gone == EliminatedIds(PlacedBy(slots, cards, lastOp'.id), events')
        IN /\ DOMAIN cards \ DOMAIN cards' = gone
           /\ \A k \in DOMAIN events' : Len(events'[k].indices) = 3
           /\ eliminationCount' = eliminationCount + Len(events')
           /\ combo' = combo + Len(events')
           /\ Len(events') = 1 =>
                 currentScore' = currentScore + addEliminationScoreReturn(ScoreHere, 3)
           /\ \A id \in gone : id \notin DOMAIN cards' /\ SlotsOf(slots', id) = {}

C25_ThreeCardsStep ==
    lastOp'.name = "click" /\ ret' /\ events' # <<>> =>
        Cardinality(EliminatedIds(PlacedBy(slots, cards, lastOp'.id), events'))
            = 3 * Len(events')

C25_AsStated == [][C25_OccupantsStep /\ C25_ThreeCardsStep]_vars

\* what holds of every elimination: the occupants of the three slots leave
\* the map and the queue, and the event scores once
C25_OccupantsRemoved == [][C25_OccupantsStep]_vars

\* three different cards are removed whenever the click names a card that is
\* not in a slot and no card is held by two slots
C25_ThreeCardsOffSlots ==
    [][(/\ lastOp'.id \in DOMAIN cards
        /\ ~cards[lastOp'.id].inSlot
        /\ \A id \in DOMAIN cards : Cardinality(SlotsOf(slots, id)) <= 1)
       => C25_ThreeCardsStep]_vars

(***************************************************************************)
(* C26.  In every state reached from the empty queue by addCard and        *)
(* clearAll, once the operation has completed no card type has 3 or more   *)
(* occupants in the queue; hence canContinue() is true if and only if the  *)
(* queue is not full.                                                      *)
(***************************************************************************)
C26_EagerElimination ==
    /\ \A t \in 0..MaxSlotType : Cardinality(OfType(slots, t)) < 3
    /\ canContinue(slots) <=> ~isFull(slots)

\* an add has filled the queue with two cards of each of three types and one
\* of a fourth: canContinue() is false
C26_Witness ==
    /\ lastOp.name = "addCard" /\ ret = TRUE
    /\ isFull(slots) /\ ~canContinue(slots)
    /\ \E t \in 0..MaxSlotType : Cardinality(OfType(slots, t)) = 1

(***************************************************************************)
(* C27.  After every completed add the number of occupied slots is at most *)
(* twice the number of distinct card types in play; so in a level whose    *)
(* cards have at most 3 distinct types the queue never holds more than 6   *)
(* cards and the loss state is not reached, whatever the order of clicks.  *)
(***************************************************************************)
\* the distinct types of the cards the current level was dealt
TypesInPlay == Range(genTypes)

C27_QueueBoundedByTypes ==
    /\ getCardCount(slots) <= 2 * Cardinality(TypesInPlay)
    /\ Cardinality(TypesInPlay) <= 3 =>
          /\ getCardCount(slots) <= 6
          /\ ~(isGameOver /\ ~isPlaying /\ ~nextLevelTimer)

\* a level of three types, its queue holding two cards of each, still in play
C27_Witness ==
    /\ lastOp.name = "click" /\ ret
    /\ Cardinality(TypesInPlay) = 3
    /\ getCardCount(slots) = 6
    /\ isPlaying /\ ~isGameOver

(***************************************************************************)
(* C28.  After updateCardStates, whenever the field holds a card that is   *)
(* not in a slot, some such card is enabled: every card of the highest     *)
(* layer among them is clickable, and cards of one layer never cover one   *)
(* another, even at the same position.                                     *)
(***************************************************************************)
TopLayer(cs) == {i \in InField(cs) : \A o \in InField(cs) : cs[o].layer <= cs[i].layer}

C28_NoFieldDeadlock ==
    lastOp.name = "updateCardStates" =>
        /\ InField(cards) # {} => getClickabledCards(cards) # {}
        /\ \A i \in TopLayer(cards) : ~cards[i].isDisabled
        /\ \A i \in InField(cards) :
              cards[i].isDisabled => \E o \in InField(cards) : cards[o].layer > cards[i].layer

\* two cards at one position on the top layer, both enabled, above a covered one
C28_Witness ==
    /\ lastOp.name = "updateCardStates"
    /\ \E i, j, k \in InField(cards) :
          /\ i # j /\ cards[i].layer = cards[j].layer /\ cards[i].x = cards[j].x
          /\ ~cards[i].isDisabled /\ ~cards[j].isDisabled
          /\ cards[k].layer < cards[i].layer /\ cards[k].isDisabled

(***************************************************************************)
(* C29.  Within a level enabling is monotonic: a field card that is        *)
(* enabled stays enabled after every later click and elimination until it  *)
(* is itself moved to the slot queue; no click turns an enabled field card *)
(* into a disabled one.                                                    *)
(***************************************************************************)
C29_ClickStep ==
    lastOp'.name = "click" =>
        \A i \in InField(cards) \cap DOMAIN cards' :
            ~cards[i].isDisabled => ~cards'[i].isDisabled

C29_EnablingMonotonic == [][C29_ClickStep]_vars

\* after a click: a field card enabled under a card that has moved to the
\* queue, among at least three enabled field cards
C29_Witness ==
    /\ lastOp.name = "click" /\ ret
    /\ \E i \in InField(cards), o \in DOMAIN cards :
          /\ cards[o].inSlot /\ cards[o].layer > cards[i].layer
          /\ checkOverlap(cards[i], cards[o])
          /\ ~cards[i].isDisabled
    /\ Cardinality(getClickabledCards(cards)) >= 3

(***************************************************************************)
(* C30.  Within a level dealt with a multiple of 3 cards of each type, in  *)
(* every state between events reached by clicks on clickable field cards,  *)
(* for each card type the number of field cards of the type that are not   *)
(* in a slot plus the number of slot entries of the type is a multiple of  *)
(* 3, and the total of field cards plus slot entries decreases only in     *)
(* steps of 3.                                                             *)
(***************************************************************************)
FieldOfType(cs, t) == Cardinality({i \in InField(cs) : cs[i].type = t})

InPlayOfType(cs, s, t) == FieldOfType(cs, t) + Cardinality(OfType(s, t))

InPlay(cs, s) == Cardinality(InField(cs)) + getCardCount(s)

PlayTypes == 0..6

C30_Conserved ==
    (\A t \in PlayTypes : CountOf(genTypes, t) % 3 = 0) =>
        \A t \in PlayTypes : InPlayOfType(cards, slots, t) % 3 = 0

C30_ClickStep ==
    lastOp'.name = "click" =>
        InPlay(cards', slots') \in {InPlay(cards, slots), InPlay(cards, slots) - 3}

C30_TypeConservation == []C30_Conserved /\ [][C30_ClickStep]_vars

\* a click has just eliminated a triple, with a card left in the queue and
\* cards left in the field
C30_Witness ==
    /\ lastOp.name = "click" /\ ret /\ events # <<>>
    /\ getCardCount(slots) >= 1
    /\ InField(cards) # {}

(***************************************************************************)
(* C31.  The status flags of the Game are consistent in every reachable    *)
(* state: isPlaying and isGameOver are never both true; after a level      *)
(* start (startNewGame, startNextLevel, restartCurrentLevel) that did not  *)
(* throw, pauseGame() toggles isPaused; and a cardClicked event received   *)
(* while the game is paused or not playing changes neither the cards nor   *)
(* the slots nor the score.                                                *)
(***************************************************************************)
LevelStarts == {"startNewGame", "startNextLevel", "restartCurrentLevel"}

C31_FlagsExclusive == ~(isPlaying /\ isGameOver)

C31_PauseAfterStart ==
    (lastOp.name \in LevelStarts /\ ~thrown) => pauseGame(Here).isPaused # isPaused

C31_IdleClickStep ==
    (lastOp'.name = "click" /\ (isPaused \/ ~isPlaying)) =>
        UNCHANGED <<cards, nextId, slots, scoreVars>>

C31_AsStated ==
    [](C31_FlagsExclusive /\ C31_PauseAfterStart) /\ [][C31_IdleClickStep]_vars

\* what holds of the three parts: a cardClicked event received while the
\* game is paused or not playing is dropped
C31_IdleClicksDropped ==
    [][C31_IdleClickStep /\ (lastOp'.name = "click" /\ (isPaused \/ ~isPlaying) => ~ret')]_vars

\* startNewGame() and restartCurrentLevel() clear isGameOver, after them
\* pauseGame() toggles; startNextLevel() keeps the isGameOver it finds
C31_StartNextLevelKeepsGameOver ==
    /\ (lastOp.name \in {"startNewGame", "restartCurrentLevel"} /\ ~thrown) =>
          (isPlaying /\ ~isGameOver /\ pauseGame(Here).isPaused # isPaused)
    /\ [][lastOp'.name = "startNextLevel" => isGameOver' = isGameOver]_vars

====
